---------------------------- MODULE Spec2Model ----------------------------
(***************************************************************************)
(* A model of the lheutils command line tools (src/lheutils/cli):         *)
(*   lhe2lhe  (convert_lhe_file)  header weight registry + event stream   *)
(*   lhesplit (split_lhe_file)    fixed size partitioning                 *)
(*   lhemerge (merge_lhe_files)   multi source concatenation              *)
(*   lhefix   (fix_file)          truncation recovery + file replace      *)
(* Every tool is a sequential program; its position is a pc variable and  *)
(* every step of its code is one action.  The decoder (pylhe) is an       *)
(* environment that hands out a header and then, on every pull, an event, *)
(* the end of the stream, or a decode error.                              *)
(***************************************************************************)
EXTENDS Integers, Sequences, FiniteSets, TLC

VARIABLES
    \* ---- lhe2lhe: convert_lhe_file
    cv_pc,        \* position in convert_lhe_file
    cv_ret,       \* the returned code: <<>> while running, then <<0>> or <<1>>
    cv_init,      \* lhefile.init.weightgroup: group name -> (weight id -> info)
    cv_index,     \* the local variable `index`
    cv_nadd,      \* entries of add_initrwgt processed so far
    cv_append,    \* append_lhe_weight: <<>> (None) or <<[group, id, text]>>
    cv_only,      \* only_weight_id: <<>> (None) or <<id>>
    cv_output,    \* output_file: <<>> (None, stdout) or <<path>>
    cv_compress,  \* compress
    cv_pulled,    \* events pulled from lhefile.events so far
    cv_file,      \* content found at the output path
    cv_stdout,    \* what has been written to sys.stdout
    \* ---- lhesplit: split_lhe_file
    sp_pc,        \* position in split_lhe_file
    sp_ret,       \* return code
    sp_K,         \* num_events (events_per_file)
    sp_src,       \* the events of the input file, in order
    sp_pos,       \* events pulled from events_iter so far
    sp_exhausted, \* the nonlocal flag `exhausted`
    sp_i,         \* the chunk counter `i`
    sp_j,         \* iterations of range(events_per_file) started in this chunk
    sp_files,     \* sp_files[i]: the events written to the i-th output file
    sp_base,      \* output_base, as its sequence of characters and names
    sp_names,     \* sp_names[i]: the output_filename of the i-th output file
    sp_init,      \* lhefile.init: <<>> before the input is read, then <<header>>
    sp_heads,     \* sp_heads[i]: <<>> or <<the header written to the i-th file>>
    sp_closed,    \* output files that tofile has written completely and closed
    \* ---- lhemerge: merge_lhe_files
    mg_pc,        \* position in merge_lhe_files
    mg_ret,       \* return code
    mg_n,         \* len(input_files)
    mg_inits,     \* init_sections: the headers read so far, in list order
    mg_cur,       \* index of the source merged_events() is iterating
    mg_pulled,    \* mg_pulled[k]: events pulled from source k so far
    mg_ended,     \* mg_ended[k]: source k has signalled the end of its stream
    mg_total,     \* the nonlocal counter total_events
    mg_out,       \* content at the output path (or of stdout)
    mg_tofile,    \* output_file is a path (TRUE) or None (FALSE)
    \* ---- lhefix: fix_file
    fx_pc,        \* position in fix_file
    fx_mode,      \* "stdin" (filepath is None) or "file"
    fx_suffix,    \* suffix: <<>> (None) or <<s>>
    fx_compress,  \* compress
    fx_fs,        \* the file system: path of every existing file -> content
    fx_fs0,       \* the file system when fix_file was called
    fx_stdout,    \* what has been written to sys.stdout
    fx_pulled,    \* events pulled from lhefile.events
    fx_count,     \* event_count of _generator
    fx_log,       \* messages printed
    fx_replaced,  \* number of os.replace calls that succeeded
    fx_tmpmade,   \* tempfile.mkstemp has returned
    fx_nfiles,    \* len(args.files): 0 when lhefix reads stdin
    fx_k,         \* the file of args.files that main has taken up
    fx_results,   \* for every file main is through with: the report and the event count
    fx_start,     \* the file system when main started
    \* ---- lheinfo: LHEAccumulatedInfo.__add__ on given summaries
    ag_pc,        \* "start" before the sums are computed, "done" after
    ag_in,        \* the summaries <<a, b, c>>
    ag_out,       \* the sums computed from them
    \* ---- lheinfo: get_lhesummary
    li_pc,        \* position in get_lhesummary
    li_nfiles,    \* len(filepaths_or_fileobjs)
    li_k,         \* files summarized so far
    li_procs,     \* procId of every entry of lhefile.init.procInfo
    li_events,    \* events pulled from the current file
    li_num,       \* num_events
    li_neg,       \* num_negative_weighted_events
    li_combos,    \* initial_final_combinations, in insertion order
    li_negcombos, \* initial_final_negative_combinations
    li_last,      \* <<>> or <<what LHEInfo.print returned for the last file>>
    li_acc,       \* lheacc
    \* ---- lheshow: main, show_event, show_init
    sh_pc,        \* position in main and in the show_* call it is running
    sh_nfiles,    \* len(file_inputs)
    sh_k,         \* index in file_inputs of the file being shown
    sh_event,     \* args.event: <<>> (None, --init was given) or <<N>>
    sh_i,         \* the loop variable `i` of show_event
    sh_out,       \* what has been printed to stdout
    sh_err        \* the error messages printed to stderr

cvVars == <<cv_pc, cv_ret, cv_init, cv_index, cv_nadd, cv_append, cv_only,
            cv_output, cv_compress, cv_pulled, cv_file, cv_stdout>>
spVars == <<sp_pc, sp_ret, sp_K, sp_src, sp_pos, sp_exhausted,
            sp_i, sp_j, sp_files, sp_base, sp_names, sp_init, sp_heads,
            sp_closed>>
mgVars == <<mg_pc, mg_ret, mg_n, mg_inits, mg_cur, mg_pulled, mg_ended,
            mg_total, mg_out, mg_tofile>>
\* what a call of fix_file leaves alone: its arguments and the state of main
fxMain == <<fx_mode, fx_suffix, fx_compress, fx_nfiles, fx_k, fx_results, fx_start>>
fxVars == <<fx_pc, fx_fs, fx_fs0, fx_stdout, fx_pulled, fx_count, fx_log,
            fx_replaced, fx_tmpmade, fxMain>>
liVars == <<ag_pc, ag_in, ag_out, li_pc, li_nfiles, li_k, li_procs, li_events,
            li_num, li_neg, li_combos, li_negcombos, li_last, li_acc>>
shVars == <<sh_pc, sh_nfiles, sh_k, sh_event, sh_i, sh_out, sh_err>>
vars == <<cvVars, spVars, mgVars, fxVars, liVars, shVars>>

-----------------------------------------------------------------------------
(* Bounds of the model *)

\* longest add_initrwgt list
MaxAdd == 2
\* most events a source of lhe2lhe hands out
MaxEvents == 2
\* most events in the input of lhesplit
MaxSplitEvents == 4
\* largest num_events given to lhesplit
MaxChunk == 3
\* output files after which a split that never ends is cut off
MaxFiles == 3
\* most input files of lhemerge
MaxSources == 2
\* most events one input file of lhemerge hands out
MaxMergeEvents == 2
\* most events the inputs of one run of lhefix hand out together
MaxFixEvents == 2
\* most files named on the command line of lhefix
MaxFixFiles == 2
\* most channels the three summaries given to __add__ list together
MaxChannels == 3
\* most files given to get_lhesummary
MaxInfoFiles == 2
\* most events the files given to get_lhesummary hold together
MaxInfoEvents == 2
\* most files given to lheshow
MaxShowFiles == 3
\* most events one file given to lheshow holds, and largest --event
MaxShowEvents == 3

-----------------------------------------------------------------------------
(* Common data *)

EmptyMap == [x \in {} |-> 0]

\* dict[key] = value
Put(m, k, v) == [x \in (DOMAIN m) \cup {k} |-> IF x = k THEN v ELSE m[x]]

\* a file or stream that holds a header (at most one) and events
NoContent(st) == [state |-> st, init |-> <<>>, events |-> <<>>, complete |-> FALSE]

-----------------------------------------------------------------------------
(* lhe2lhe: convert_lhe_file *)

GroupNames == {"g1", "g2"}
WeightIds == {"a", "b"}
WeightTexts == {"t"}

WInfo(text, idx) == [name |-> text, index |-> idx]

\* headers the decoder may hand out: weight ids unique and not, an empty
\* group, indices with a gap
InitHeaders ==
    { EmptyMap,
      [g \in {"g1"} |-> [i \in {"a"} |-> WInfo("t0", 1)]],
      [g \in {"g1", "g2"} |-> IF g = "g1" THEN [i \in {"a"} |-> WInfo("t0", 1)]
                                           ELSE [i \in {"b"} |-> WInfo("t0", 2)]],
      [g \in {"g1", "g2"} |-> IF g = "g1" THEN [i \in {"a"} |-> WInfo("t0", 1)]
                                           ELSE [i \in {"a"} |-> WInfo("t0", 2)]],
      [g \in {"g1", "g2"} |-> IF g = "g1" THEN EmptyMap
                                           ELSE [i \in {"b"} |-> WInfo("t0", 3)]] }

\* events the decoder may hand out: central weight and alternate weights
ConvEvents ==
    { [weight |-> w, weights |-> m] :
        w \in {1, 2},
        m \in { EmptyMap,
                [i \in {"a"} |-> 7],
                [i \in {"a", "b"} |-> IF i = "a" THEN 7 ELSE 9] } }

\* all weight indices of the header
AllIndices(init) ==
    UNION { { init[g][i].index : i \in DOMAIN init[g] } : g \in DOMAIN init }

SetMax(S) == CHOOSE x \in S : \A y \in S : y <= x

\* get_max_weight_index(init): the largest weight index of the header
get_max_weight_index(init) ==
    IF AllIndices(init) = {} THEN 0 ELSE SetMax(AllIndices(init))

\* a duplicate check that looks at the first weight group only
HasWeightId_FirstGroupOnly(init, id) ==
    "g1" \in DOMAIN init /\ id \in DOMAIN init["g1"]

\* `for wg in lhefile.init.weightgroup.values(): if weight_id in wg.weights`
HasWeightId(init, id) == \E g \in DOMAIN init : id \in DOMAIN init[g]

\* create the weight group if absent, then insert the weight with index + 1
RegisterWeight(init, index, g, id, t) ==
    LET withGroup == IF g \notin DOMAIN init THEN Put(init, g, EmptyMap) ELSE init
    IN  IF id \notin DOMAIN withGroup[g]
        THEN Put(withGroup, g, Put(withGroup[g], id, WInfo(t, index + 1)))
        ELSE withGroup

\* a restriction that empties the other groups and leaves them in the header
RestrictTo_KeepsEmptyGroups(init, id) ==
    [g \in DOMAIN init |->
        IF id \in DOMAIN init[g] THEN [i \in {id} |-> init[g][id]] ELSE EmptyMap]

\* keep only_weight_id in every group, then drop the empty groups
RestrictTo(init, id) ==
    LET pruned == [g \in DOMAIN init |->
                      IF id \in DOMAIN init[g] THEN [i \in {id} |-> init[g][id]]
                                               ELSE EmptyMap]
    IN  [g \in { x \in DOMAIN init : DOMAIN pruned[x] # {} } |-> pruned[g]]

\* a restriction that keeps the selected weight as the one alternate weight
Transform_KeepsSelected(e, append, only) ==
    LET e1 == IF append # <<>>
              THEN [e EXCEPT !.weights = Put(e.weights, append[1].id, e.weight)]
              ELSE e
    IN  IF only # <<>>
        THEN IF only[1] \in DOMAIN e1.weights
             THEN << [weight |-> e1.weights[only[1]],
                      weights |-> [i \in {only[1]} |-> e1.weights[only[1]]]] >>
             ELSE <<>>
        ELSE << e1 >>

\* an append that replaces the alternate weights by the appended one
Transform_AppendReplacesAll(e, append, only) ==
    LET e1 == IF append # <<>>
              THEN [e EXCEPT !.weights = [i \in {append[1].id} |-> e.weight]]
              ELSE e
    IN  IF only # <<>>
        THEN IF only[1] \in DOMAIN e1.weights
             THEN << [weight |-> e1.weights[only[1]], weights |-> EmptyMap] >>
             ELSE <<>>
        ELSE << e1 >>

\* the body of _generator for one event: <<>> when the event is skipped
Transform(e, append, only) ==
    LET e1 == IF append # <<>>
              THEN [e EXCEPT !.weights = Put(e.weights, append[1].id, e.weight)]
              ELSE e
    IN  IF only # <<>>
        THEN IF only[1] \in DOMAIN e1.weights
             THEN << [weight |-> e1.weights[only[1]], weights |-> EmptyMap] >>
             ELSE <<>>
        ELSE << e1 >>

cvReturn(code) == cv_ret' = <<code>> /\ cv_pc' = "done"

ConvertInit ==
    /\ cv_pc = "read" /\ cv_ret = <<>> /\ cv_init = EmptyMap
    /\ cv_index = 0 /\ cv_nadd = 0 /\ cv_append = <<>> /\ cv_only = <<>>
    /\ cv_output \in {<<>>, <<"out.lhe">>}
    /\ cv_compress \in BOOLEAN
    /\ cv_pulled = <<>>
    /\ cv_file \in {NoContent("absent"), NoContent("orig")}
    /\ cv_stdout = NoContent("new")

ConvertIdle ==
    /\ cv_pc = "idle" /\ cv_ret = <<>> /\ cv_init = EmptyMap
    /\ cv_index = 0 /\ cv_nadd = 0 /\ cv_append = <<>> /\ cv_only = <<>>
    /\ cv_output = <<>> /\ cv_compress = FALSE /\ cv_pulled = <<>>
    /\ cv_file = NoContent("absent") /\ cv_stdout = NoContent("new")

\* lhefile = pylhe.LHEFile.fromfile(input_file): the header is decoded
ConvertRead(h) ==
    /\ cv_pc = "read"
    /\ cv_init' = h /\ cv_pc' = "add"
    /\ UNCHANGED <<cv_ret, cv_index, cv_nadd, cv_append, cv_only, cv_output,
                   cv_compress,
                   cv_pulled, cv_file, cv_stdout, spVars, mgVars, fxVars, liVars,
                   shVars>>

\* the input cannot be read: FileNotFoundError or any other exception
ConvertReadFail ==
    /\ cv_pc = "read"
    /\ cvReturn(1)
    /\ UNCHANGED <<cv_init, cv_index, cv_nadd, cv_append, cv_only, cv_output,
                   cv_compress,
                   cv_pulled, cv_file, cv_stdout, spVars, mgVars, fxVars, liVars,
                   shVars>>

\* `if add_initrwgt:` with None or an empty list
ConvertAddNone ==
    /\ cv_pc = "add"
    /\ cv_pc' = "append"
    /\ UNCHANGED <<cv_ret, cv_init, cv_index, cv_nadd, cv_append, cv_only,
                   cv_output, cv_compress,
                   cv_pulled, cv_file, cv_stdout, spVars, mgVars, fxVars, liVars,
                   shVars>>

\* `if add_initrwgt:` with entries: index = get_max_weight_index(lhefile.init)
ConvertAddBegin ==
    /\ cv_pc = "add"
    /\ cv_index' = get_max_weight_index(cv_init)
    /\ cv_pc' = "addloop"
    /\ UNCHANGED <<cv_ret, cv_init, cv_nadd, cv_append, cv_only, cv_output,
                   cv_compress,
                   cv_pulled, cv_file, cv_stdout, spVars, mgVars, fxVars, liVars,
                   shVars>>

\* one iteration of `for group_name, weight_id, weight_text in add_initrwgt`
ConvertAddEntry(g, id, t) ==
    /\ cv_pc = "addloop"
    /\ cv_nadd < MaxAdd
    /\ cv_nadd' = cv_nadd + 1
    /\ IF HasWeightId(cv_init, id)
       THEN cvReturn(1) /\ UNCHANGED cv_init
       ELSE /\ cv_init' = RegisterWeight(cv_init, cv_index, g, id, t)
            /\ UNCHANGED <<cv_pc, cv_ret>>
    /\ UNCHANGED <<cv_index, cv_append, cv_only, cv_output, cv_compress,
                   cv_pulled, cv_file, cv_stdout, spVars, mgVars, fxVars, liVars,
                   shVars>>

\* the add_initrwgt list is used up
ConvertAddEnd ==
    /\ cv_pc = "addloop"
    /\ cv_nadd >= 1
    /\ cv_pc' = "append"
    /\ UNCHANGED <<cv_ret, cv_init, cv_index, cv_nadd, cv_append, cv_only,
                   cv_output, cv_compress,
                   cv_pulled, cv_file, cv_stdout, spVars, mgVars, fxVars, liVars,
                   shVars>>

\* `if append_lhe_weight is not None:` is false
ConvertAppendNone ==
    /\ cv_pc = "append"
    /\ cv_pc' = "only"
    /\ UNCHANGED <<cv_ret, cv_init, cv_index, cv_nadd, cv_append, cv_only,
                   cv_output, cv_compress,
                   cv_pulled, cv_file, cv_stdout, spVars, mgVars, fxVars, liVars,
                   shVars>>

\* append_lhe_weight = (g, id, t): register the weight
ConvertAppend(g, id, t) ==
    /\ cv_pc = "append"
    /\ cv_append' = << [group |-> g, id |-> id, text |-> t] >>
    /\ cv_index' = get_max_weight_index(cv_init)
    /\ IF HasWeightId(cv_init, id)
       THEN cvReturn(1) /\ UNCHANGED cv_init
       ELSE /\ cv_init' = RegisterWeight(cv_init, get_max_weight_index(cv_init), g, id, t)
            /\ cv_pc' = "only"
            /\ UNCHANGED cv_ret
    /\ UNCHANGED <<cv_nadd, cv_only, cv_output, cv_compress,
                   cv_pulled, cv_file, cv_stdout, spVars, mgVars, fxVars, liVars,
                   shVars>>

\* `if only_weight_id is not None:` is false
ConvertOnlyNone ==
    /\ cv_pc = "only"
    /\ cv_pc' = "out"
    /\ UNCHANGED <<cv_ret, cv_init, cv_index, cv_nadd, cv_append, cv_only,
                   cv_output, cv_compress,
                   cv_pulled, cv_file, cv_stdout, spVars, mgVars, fxVars, liVars,
                   shVars>>

\* only_weight_id = id: remove all other weights from the init block
ConvertOnly(id) ==
    /\ cv_pc = "only"
    /\ cv_only' = <<id>>
    /\ cv_init' = RestrictTo(cv_init, id)
    /\ cv_pc' = "out"
    /\ UNCHANGED <<cv_ret, cv_index, cv_nadd, cv_append, cv_output, cv_compress,
                   cv_pulled, cv_file, cv_stdout, spVars, mgVars, fxVars, liVars,
                   shVars>>

\* output_file is None: refuse compress, else write() serializes the header
ConvertOutStdout(compress) ==
    /\ cv_pc = "out"
    /\ cv_output = <<>>
    /\ IF compress
       THEN cvReturn(1) /\ UNCHANGED cv_stdout
       ELSE /\ cv_stdout' = [cv_stdout EXCEPT !.init = <<cv_init>>]
            /\ cv_pc' = "stream"
            /\ UNCHANGED cv_ret
    /\ UNCHANGED <<cv_init, cv_index, cv_nadd, cv_append, cv_only, cv_output,
                   cv_compress,
                   cv_pulled, cv_file, spVars, mgVars, fxVars, liVars, shVars>>

\* write(sys.stdout) raises before anything is written (sys.stdout cannot
\* be written): `except Exception` returns 1
ConvertOutStdoutFail ==
    /\ cv_pc = "out"
    /\ cv_output = <<>>
    /\ ~cv_compress
    /\ cvReturn(1)
    /\ UNCHANGED <<cv_init, cv_index, cv_nadd, cv_append, cv_only, cv_output,
                   cv_compress, cv_pulled, cv_file, cv_stdout,
                   spVars, mgVars, fxVars, liVars, shVars>>

\* tofile(output_file): the file is opened for writing and the header written
ConvertOutFile ==
    /\ cv_pc = "out"
    /\ cv_output # <<>>
    /\ cv_file' = [NoContent("new") EXCEPT !.init = <<cv_init>>]
    /\ cv_pc' = "stream"
    /\ UNCHANGED <<cv_ret, cv_init, cv_index, cv_nadd, cv_append, cv_only,
                   cv_output, cv_compress,
                   cv_pulled, cv_stdout, spVars, mgVars, fxVars, liVars,
                   shVars>>

\* tofile(output_file): the file cannot be opened
ConvertOutFileFail ==
    /\ cv_pc = "out"
    /\ cv_output # <<>>
    /\ cvReturn(1)
    /\ UNCHANGED <<cv_init, cv_index, cv_nadd, cv_append, cv_only, cv_output,
                   cv_compress,
                   cv_pulled, cv_file, cv_stdout, spVars, mgVars, fxVars, liVars,
                   shVars>>

\* tofile(output_file): the file is opened, which empties it, and the
\* write of the header raises: `except Exception` returns 1
ConvertOutFileHeaderFail ==
    /\ cv_pc = "out"
    /\ cv_output # <<>>
    /\ cv_file' = NoContent("new")
    /\ cvReturn(1)
    /\ UNCHANGED <<cv_init, cv_index, cv_nadd, cv_append, cv_only, cv_output,
                   cv_compress, cv_pulled, cv_stdout,
                   spVars, mgVars, fxVars, liVars, shVars>>

cvEmit(out, evs) == [out EXCEPT !.events = out.events \o evs]

\* a generator that registers an event's weight "a" in the header when the
\* header does not know it
ConvertPull_RegistersLazily(e) ==
    /\ cv_pc = "stream"
    /\ Len(cv_pulled) < MaxEvents
    /\ cv_pulled' = Append(cv_pulled, e)
    /\ cv_init' = IF "a" \in DOMAIN e.weights /\ ~HasWeightId(cv_init, "a")
                  THEN RegisterWeight(cv_init, get_max_weight_index(cv_init),
                                      "g1", "a", "t")
                  ELSE cv_init
    /\ IF cv_output = <<>>
       THEN /\ cv_stdout' = cvEmit(cv_stdout, Transform(e, cv_append, cv_only))
            /\ UNCHANGED cv_file
       ELSE /\ cv_file' = cvEmit(cv_file, Transform(e, cv_append, cv_only))
            /\ UNCHANGED cv_stdout
    /\ UNCHANGED <<cv_pc, cv_ret, cv_index, cv_nadd, cv_append, cv_only,
                   cv_output, cv_compress, spVars, mgVars, fxVars, liVars,
                   shVars>>

\* the writer pulls one event through _generator
ConvertPull(e) ==
    /\ cv_pc = "stream"
    /\ Len(cv_pulled) < MaxEvents
    /\ cv_pulled' = Append(cv_pulled, e)
    /\ IF cv_output = <<>>
       THEN /\ cv_stdout' = cvEmit(cv_stdout, Transform(e, cv_append, cv_only))
            /\ UNCHANGED cv_file
       ELSE /\ cv_file' = cvEmit(cv_file, Transform(e, cv_append, cv_only))
            /\ UNCHANGED cv_stdout
    /\ UNCHANGED <<cv_pc, cv_ret, cv_init, cv_index, cv_nadd, cv_append,
                   cv_only,
                   cv_output, cv_compress, spVars, mgVars, fxVars, liVars,
                   shVars>>

\* the writer pulls one event through _generator and the write of what
\* _generator yields for it raises: `except Exception` returns 1
ConvertWriteError(e) ==
    /\ cv_pc = "stream"
    /\ Len(cv_pulled) < MaxEvents
    /\ Transform(e, cv_append, cv_only) # <<>>
    /\ cv_pulled' = Append(cv_pulled, e)
    /\ cvReturn(1)
    /\ UNCHANGED <<cv_init, cv_index, cv_nadd, cv_append, cv_only, cv_output,
                   cv_compress, cv_file, cv_stdout,
                   spVars, mgVars, fxVars, liVars, shVars>>

\* lhefile.events is exhausted: the closing tag is written
ConvertPullEnd ==
    /\ cv_pc = "stream"
    /\ IF cv_output = <<>>
       THEN cv_stdout' = [cv_stdout EXCEPT !.complete = TRUE] /\ UNCHANGED cv_file
       ELSE cv_file' = [cv_file EXCEPT !.complete = TRUE] /\ UNCHANGED cv_stdout
    /\ cvReturn(0)
    /\ UNCHANGED <<cv_init, cv_index, cv_nadd, cv_append, cv_only, cv_output,
                   cv_compress,
                   cv_pulled, spVars, mgVars, fxVars, liVars, shVars>>

\* lhefile.events raises: `except Exception` returns 1
ConvertPullError ==
    /\ cv_pc = "stream"
    /\ cvReturn(1)
    /\ UNCHANGED <<cv_init, cv_index, cv_nadd, cv_append, cv_only, cv_output,
                   cv_compress,
                   cv_pulled, cv_file, cv_stdout, spVars, mgVars, fxVars, liVars,
                   shVars>>

ConvertNext ==
    \/ \E h \in InitHeaders : ConvertRead(h)
    \/ ConvertReadFail
    \/ ConvertAddNone
    \/ ConvertAddBegin
    \/ \E g \in GroupNames, id \in WeightIds, t \in WeightTexts : ConvertAddEntry(g, id, t)
    \/ ConvertAddEnd
    \/ ConvertAppendNone
    \/ \E g \in GroupNames, id \in WeightIds, t \in WeightTexts : ConvertAppend(g, id, t)
    \/ ConvertOnlyNone
    \/ \E id \in WeightIds : ConvertOnly(id)
    \/ ConvertOutStdout(cv_compress)
    \/ ConvertOutStdoutFail
    \/ ConvertOutFile
    \/ ConvertOutFileFail
    \/ ConvertOutFileHeaderFail
    \/ \E e \in ConvEvents : ConvertPull(e)
    \/ \E e \in ConvEvents : ConvertWriteError(e)
    \/ ConvertPullEnd
    \/ ConvertPullError

-----------------------------------------------------------------------------
(* lhesplit: split_lhe_file *)

SplitEvents == {"e1", "e2"}
SplitHeaders == {"h1", "h2"}

\* sequences over S of length at most n
SeqUpTo(S, n) == UNION { [1..k -> S] : k \in 0..n }

\* a path string is the sequence of its pieces: "." and "/" are pieces of
\* their own, every other piece is a run of characters without "." and "/"
SplitBases ==
    { <<"output", ".", "lhe">>,
      <<"split", ".", "lhe", ".", "gz">>,
      <<".", "/", "out", ".", "lhe">>,
      <<"run", ".", "v2", "/", "out", ".", "lhe">>,
      <<"out">> }

Digits == <<"0", "1", "2", "3", "4", "5", "6", "7", "8", "9">>

\* str(n) of an integer n >= 0
RECURSIVE Str(_)
Str(n) == IF n < 10 THEN Digits[n + 1]
                    ELSE Str(n \div 10) \o Digits[(n % 10) + 1]

\* position of the first piece of s equal to c, 0 when there is none
FirstIndex(s, c) ==
    IF \E k \in 1..Len(s) : s[k] = c
    THEN CHOOSE k \in 1..Len(s) : s[k] = c /\ \A m \in 1..(k - 1) : s[m] # c
    ELSE 0

\* s.replace(old, new, 1) for a one-piece old and a sequence of pieces new
ReplaceFirst(s, old, new) ==
    LET k == FirstIndex(s, old)
    IN  IF k = 0 THEN s
        ELSE SubSeq(s, 1, k - 1) \o new \o SubSeq(s, k + 1, Len(s))

\* output_filename = f"{output_base.replace('.', f'_{i}.', 1)}"
OutputFilename(output_base, i) ==
    ReplaceFirst(output_base, ".", <<"_" \o Str(i), ".">>)

spReturn(code) == sp_ret' = <<code>> /\ sp_pc' = "done"

SplitInit ==
    /\ sp_pc = "read" /\ sp_ret = <<>>
    /\ sp_K \in -1..MaxChunk
    /\ sp_src \in SeqUpTo(SplitEvents, MaxSplitEvents)
    /\ sp_base \in SplitBases
    /\ sp_pos = 0 /\ sp_exhausted = FALSE
    /\ sp_i = 0 /\ sp_j = 0 /\ sp_files = <<>>
    /\ sp_names = <<>> /\ sp_init = <<>> /\ sp_heads = <<>> /\ sp_closed = 0

SplitIdle ==
    /\ sp_pc = "idle" /\ sp_ret = <<>> /\ sp_K = 1 /\ sp_src = <<>>
    /\ sp_base = <<>>
    /\ sp_pos = 0 /\ sp_exhausted = FALSE
    /\ sp_i = 0 /\ sp_j = 0 /\ sp_files = <<>>
    /\ sp_names = <<>> /\ sp_init = <<>> /\ sp_heads = <<>> /\ sp_closed = 0

\* lhefile = pylhe.LHEFile.fromfile(input_file); events_iter = iter(lhefile.events)
SplitRead(h) ==
    /\ sp_pc = "read"
    /\ sp_init' = <<h>>
    /\ sp_pc' = "loop"
    /\ UNCHANGED <<sp_ret, sp_K, sp_src, sp_pos, sp_exhausted, sp_i, sp_j,
                   sp_files, sp_base, sp_names, sp_heads, sp_closed,
                   cvVars, mgVars, fxVars, liVars, shVars>>

\* reading the input raises: return 1, "Error reading input ..."
SplitReadFail ==
    /\ sp_pc = "read"
    /\ spReturn(1)
    /\ UNCHANGED <<sp_K, sp_src, sp_pos, sp_exhausted, sp_i, sp_j, sp_files,
                   sp_base, sp_names, sp_init, sp_heads, sp_closed,
                   cvVars, mgVars, fxVars, liVars, shVars>>

\* `while not exhausted:` i += 1 and tofile(output_filename) opens the i-th
\* file and writes the header of LHEFile(init=lhefile.init, ...)
SplitNewChunk ==
    /\ sp_pc = "loop"
    /\ ~sp_exhausted
    /\ sp_K >= 1 \/ sp_i < MaxFiles
    /\ sp_i' = sp_i + 1
    /\ sp_names' = Append(sp_names, OutputFilename(sp_base, sp_i + 1))
    /\ sp_heads' = Append(sp_heads, sp_init)
    /\ sp_files' = Append(sp_files, <<>>)
    /\ sp_j' = 0
    /\ sp_pc' = "chunk"
    /\ UNCHANGED <<sp_ret, sp_K, sp_src, sp_pos, sp_exhausted, sp_base,
                   sp_init, sp_closed,
                   cvVars, mgVars, fxVars, liVars, shVars>>

\* `while not exhausted:` i += 1 and tofile(output_filename) cannot open the
\* i-th file: the exception leaves split_lhe_file, no file is made
SplitOpenFail ==
    /\ sp_pc = "loop"
    /\ ~sp_exhausted
    /\ sp_K >= 1 \/ sp_i < MaxFiles
    /\ sp_i' = sp_i + 1
    /\ sp_pc' = "raised"
    /\ UNCHANGED <<sp_ret, sp_K, sp_src, sp_pos, sp_exhausted, sp_j, sp_files,
                   sp_base, sp_names, sp_init, sp_heads, sp_closed,
                   cvVars, mgVars, fxVars, liVars, shVars>>

\* tofile(output_filename) opens the i-th file and the write of the header
\* raises: the file is left empty, the exception leaves split_lhe_file
SplitHeaderFail ==
    /\ sp_pc = "loop"
    /\ ~sp_exhausted
    /\ sp_K >= 1 \/ sp_i < MaxFiles
    /\ sp_i' = sp_i + 1
    /\ sp_names' = Append(sp_names, OutputFilename(sp_base, sp_i + 1))
    /\ sp_heads' = Append(sp_heads, <<>>)
    /\ sp_files' = Append(sp_files, <<>>)
    /\ sp_pc' = "raised"
    /\ UNCHANGED <<sp_ret, sp_K, sp_src, sp_pos, sp_exhausted, sp_j, sp_base,
                   sp_init, sp_closed,
                   cvVars, mgVars, fxVars, liVars, shVars>>

\* one iteration of `for _ in range(events_per_file)`: next(events_iter) gives
\* an event, which is written, or raises StopIteration, which ends the file
SplitPull ==
    /\ sp_pc = "chunk"
    /\ sp_j < sp_K
    /\ IF sp_pos < Len(sp_src)
       THEN /\ sp_pos' = sp_pos + 1
            /\ sp_j' = sp_j + 1
            /\ sp_files' = [sp_files EXCEPT ![sp_i] = Append(@, sp_src[sp_pos + 1])]
            /\ UNCHANGED <<sp_exhausted, sp_pc, sp_closed>>
       ELSE /\ sp_exhausted' = TRUE
            /\ sp_closed' = sp_closed + 1
            /\ sp_pc' = "loop"
            /\ UNCHANGED <<sp_pos, sp_j, sp_files>>
    /\ UNCHANGED <<sp_ret, sp_K, sp_src, sp_i, sp_base, sp_names, sp_init,
                   sp_heads,
                   cvVars, mgVars, fxVars, liVars, shVars>>

\* an end of chunk after which the output file is still open
SplitChunkEnd_KeepsOpen ==
    /\ sp_pc = "chunk"
    /\ sp_j >= sp_K
    /\ sp_pc' = "loop"
    /\ UNCHANGED <<sp_ret, sp_K, sp_src, sp_pos, sp_exhausted, sp_i, sp_j,
                   sp_files, sp_base, sp_names, sp_init, sp_heads, sp_closed,
                   cvVars, mgVars, fxVars, liVars, shVars>>

\* range(events_per_file) is used up: the generator ends, tofile writes the
\* closing tag and closes the file
SplitChunkEnd ==
    /\ sp_pc = "chunk"
    /\ sp_j >= sp_K
    /\ sp_closed' = sp_closed + 1
    /\ sp_pc' = "loop"
    /\ UNCHANGED <<sp_ret, sp_K, sp_src, sp_pos, sp_exhausted, sp_i, sp_j,
                   sp_files, sp_base, sp_names, sp_init, sp_heads,
                   cvVars, mgVars, fxVars, liVars, shVars>>

\* the generator has ended, by range(events_per_file) being used up or by
\* StopIteration, which sets `exhausted`, and the write of the closing tag,
\* or the close of the file, raises: nothing catches it
SplitCloseFail ==
    /\ sp_pc = "chunk"
    /\ sp_j >= sp_K \/ sp_pos >= Len(sp_src)
    /\ sp_exhausted' = (sp_exhausted \/ sp_j < sp_K)
    /\ sp_pc' = "raised"
    /\ UNCHANGED <<sp_ret, sp_K, sp_src, sp_pos, sp_i, sp_j, sp_files,
                   sp_base, sp_names, sp_init, sp_heads, sp_closed,
                   cvVars, mgVars, fxVars, liVars, shVars>>

\* next(events_iter) raises a decode error: nothing catches it
SplitPullError ==
    /\ sp_pc = "chunk"
    /\ sp_j < sp_K
    /\ sp_pos < Len(sp_src)
    /\ sp_pc' = "raised"
    /\ UNCHANGED <<sp_ret, sp_K, sp_src, sp_pos, sp_exhausted, sp_i, sp_j,
                   sp_files, sp_base, sp_names, sp_init, sp_heads, sp_closed,
                   cvVars, mgVars, fxVars, liVars, shVars>>

\* next(events_iter) gives an event and the write of it raises: nothing
\* catches it
SplitWriteError ==
    /\ sp_pc = "chunk"
    /\ sp_j < sp_K
    /\ sp_pos < Len(sp_src)
    /\ sp_pos' = sp_pos + 1
    /\ sp_j' = sp_j + 1
    /\ sp_pc' = "raised"
    /\ UNCHANGED <<sp_ret, sp_K, sp_src, sp_exhausted, sp_i, sp_files,
                   sp_base, sp_names, sp_init, sp_heads, sp_closed,
                   cvVars, mgVars, fxVars, liVars, shVars>>

\* the loop condition fails: return 0, "Split events into {i} files ..."
SplitReturn ==
    /\ sp_pc = "loop"
    /\ sp_exhausted
    /\ spReturn(0)
    /\ UNCHANGED <<sp_K, sp_src, sp_pos, sp_exhausted, sp_i, sp_j, sp_files,
                   sp_base, sp_names, sp_init, sp_heads, sp_closed,
                   cvVars, mgVars, fxVars, liVars, shVars>>

SplitNext ==
    \/ \E h \in SplitHeaders : SplitRead(h)
    \/ SplitReadFail
    \/ SplitNewChunk
    \/ SplitOpenFail
    \/ SplitHeaderFail
    \/ SplitPull
    \/ SplitChunkEnd
    \/ SplitCloseFail
    \/ SplitPullError
    \/ SplitWriteError
    \/ SplitReturn

-----------------------------------------------------------------------------
(* lhemerge: merge_lhe_files *)

\* init sections the decoder may hand out (two of their fields)
MergeHeaders == [beam : {"p", "e"}, xsec : {1, 2}]
MergeEvents == {"e1", "e2"}

\* a comparison that looks at the beams only
check_init_compatibility_BeamOnly(init_files) ==
    IF Len(init_files) < 2
    THEN TRUE
    ELSE \A k \in 2..Len(init_files) : init_files[1].beam = init_files[k].beam

\* check_init_compatibility(init_files)
check_init_compatibility(init_files) ==
    IF Len(init_files) < 2
    THEN TRUE
    ELSE \A k \in 2..Len(init_files) : init_files[1] = init_files[k]

\* the sources visited last to first
SourceOrder_Reversed(n) == [k \in 1..n |-> n + 1 - k]

\* the sources in the order `for lhefile in lhefiles` visits them
SourceOrder(n) == [k \in 1..n |-> k]

mgReturn(code) == mg_ret' = <<code>> /\ mg_pc' = "done"

MergeInit ==
    /\ mg_pc = "read" /\ mg_ret = <<>>
    /\ mg_n \in 1..MaxSources
    /\ mg_inits = <<>>
    /\ mg_cur = 0
    /\ mg_pulled = [k \in 1..mg_n |-> <<>>]
    /\ mg_ended = [k \in 1..mg_n |-> FALSE]
    /\ mg_total = 0
    /\ mg_tofile \in BOOLEAN
    /\ mg_out \in IF mg_tofile THEN {NoContent("absent"), NoContent("orig")}
                               ELSE {NoContent("stdout")}

MergeIdle ==
    /\ mg_pc = "idle" /\ mg_ret = <<>> /\ mg_n = 0 /\ mg_inits = <<>>
    /\ mg_cur = 0 /\ mg_pulled = <<>> /\ mg_ended = <<>> /\ mg_total = 0
    /\ mg_tofile = FALSE /\ mg_out = NoContent("stdout")

\* lhefile = pylhe.LHEFile.fromfile(input_file); init_sections.append(lhefile.init)
MergeRead(h) ==
    /\ mg_pc = "read"
    /\ Len(mg_inits) < mg_n
    /\ mg_inits' = Append(mg_inits, h)
    /\ UNCHANGED <<mg_pc, mg_ret, mg_n, mg_cur, mg_pulled, mg_ended, mg_total,
                   mg_out, mg_tofile, cvVars, spVars, fxVars, liVars, shVars>>

\* fromfile raises: return 1, "Error reading input file ..."
MergeReadFail ==
    /\ mg_pc = "read"
    /\ Len(mg_inits) < mg_n
    /\ mgReturn(1)
    /\ UNCHANGED <<mg_n, mg_inits, mg_cur, mg_pulled, mg_ended, mg_total,
                   mg_out, mg_tofile, cvVars, spVars, fxVars, liVars, shVars>>

\* `if not check_init_compatibility(init_sections): return 1, ...`
MergeCheck ==
    /\ mg_pc = "read"
    /\ Len(mg_inits) = mg_n
    /\ IF check_init_compatibility(mg_inits)
       THEN mg_pc' = "open" /\ UNCHANGED mg_ret
       ELSE mgReturn(1)
    /\ UNCHANGED <<mg_n, mg_inits, mg_cur, mg_pulled, mg_ended, mg_total,
                   mg_out, mg_tofile, cvVars, spVars, fxVars, liVars, shVars>>

\* merged_file.tofile(output_file) opens the output path, or write(sys.stdout);
\* either serializes lhefiles[0].init before the first event is pulled
MergeOpen ==
    /\ mg_pc = "open"
    /\ mg_out' = IF mg_tofile
                 THEN [NoContent("new") EXCEPT !.init = <<mg_inits[1]>>]
                 ELSE [mg_out EXCEPT !.init = <<mg_inits[1]>>]
    /\ mg_cur' = 1
    /\ mg_pc' = "stream"
    /\ UNCHANGED <<mg_ret, mg_n, mg_inits, mg_pulled, mg_ended, mg_total,
                   mg_tofile, cvVars, spVars, fxVars, liVars, shVars>>

\* tofile cannot open the output path: the exception leaves merge_lhe_files
MergeOpenFail ==
    /\ mg_pc = "open"
    /\ mg_tofile
    /\ mg_pc' = "raised"
    /\ UNCHANGED <<mg_ret, mg_n, mg_inits, mg_cur, mg_pulled, mg_ended,
                   mg_total,
                   mg_out, mg_tofile, cvVars, spVars, fxVars, liVars, shVars>>

\* the write of the header raises, to sys.stdout before anything is written,
\* to the output path after tofile has opened it, which empties it: the
\* exception leaves merge_lhe_files
MergeHeaderFail ==
    /\ mg_pc = "open"
    /\ mg_out' = IF mg_tofile THEN NoContent("new") ELSE mg_out
    /\ mg_pc' = "raised"
    /\ UNCHANGED <<mg_ret, mg_n, mg_inits, mg_cur, mg_pulled, mg_ended,
                   mg_total, mg_tofile,
                   cvVars, spVars, fxVars, liVars, shVars>>

\* merged_events() yields the next event of the current source: it is written
MergePull(e) ==
    /\ mg_pc = "stream"
    /\ mg_cur <= mg_n
    /\ Len(mg_pulled[SourceOrder(mg_n)[mg_cur]]) < MaxMergeEvents
    /\ mg_pulled' = [mg_pulled EXCEPT ![SourceOrder(mg_n)[mg_cur]] = Append(@, e)]
    /\ mg_total' = mg_total + 1
    /\ mg_out' = [mg_out EXCEPT !.events = Append(@, e)]
    /\ UNCHANGED <<mg_pc, mg_ret, mg_n, mg_inits, mg_cur, mg_ended,
                   mg_tofile, cvVars, spVars, fxVars, liVars, shVars>>

\* merged_events() counts and yields the next event and the write of it
\* raises: the exception leaves merge_lhe_files
MergeWriteError(e) ==
    /\ mg_pc = "stream"
    /\ mg_cur <= mg_n
    /\ Len(mg_pulled[SourceOrder(mg_n)[mg_cur]]) < MaxMergeEvents
    /\ mg_pulled' = [mg_pulled EXCEPT ![SourceOrder(mg_n)[mg_cur]] = Append(@, e)]
    /\ mg_total' = mg_total + 1
    /\ mg_pc' = "raised"
    /\ UNCHANGED <<mg_ret, mg_n, mg_inits, mg_cur, mg_ended, mg_out,
                   mg_tofile, cvVars, spVars, fxVars, liVars, shVars>>

\* the current source is exhausted: the outer loop moves to the next lhefile
MergeSourceEnd ==
    /\ mg_pc = "stream"
    /\ mg_cur <= mg_n
    /\ mg_ended' = [mg_ended EXCEPT ![SourceOrder(mg_n)[mg_cur]] = TRUE]
    /\ mg_cur' = mg_cur + 1
    /\ UNCHANGED <<mg_pc, mg_ret, mg_n, mg_inits, mg_pulled, mg_total,
                   mg_out, mg_tofile, cvVars, spVars, fxVars, liVars, shVars>>

\* the current source raises a decode error: the exception leaves
\* merge_lhe_files, which has no handler around the write
MergePullError ==
    /\ mg_pc = "stream"
    /\ mg_cur <= mg_n
    /\ mg_pc' = "raised"
    /\ UNCHANGED <<mg_ret, mg_n, mg_inits, mg_cur, mg_pulled, mg_ended,
                   mg_total,
                   mg_out, mg_tofile, cvVars, spVars, fxVars, liVars, shVars>>

\* every source is exhausted: the closing tag is written, return 0
MergeFinish ==
    /\ mg_pc = "stream"
    /\ mg_cur = mg_n + 1
    /\ mg_out' = [mg_out EXCEPT !.complete = TRUE]
    /\ mgReturn(0)
    /\ UNCHANGED <<mg_n, mg_inits, mg_cur, mg_pulled, mg_ended, mg_total,
                   mg_tofile, cvVars, spVars, fxVars, liVars, shVars>>

\* every source is exhausted and the write of the closing tag, or the close
\* of the output, raises: the exception leaves merge_lhe_files
MergeFinishFail ==
    /\ mg_pc = "stream"
    /\ mg_cur = mg_n + 1
    /\ mg_pc' = "raised"
    /\ UNCHANGED <<mg_ret, mg_n, mg_inits, mg_cur, mg_pulled, mg_ended,
                   mg_total, mg_out, mg_tofile,
                   cvVars, spVars, fxVars, liVars, shVars>>

MergeNext ==
    \/ \E h \in MergeHeaders : MergeRead(h)
    \/ MergeReadFail
    \/ MergeCheck
    \/ MergeOpen
    \/ MergeOpenFail
    \/ MergeHeaderFail
    \/ \E e \in MergeEvents : MergePull(e)
    \/ \E e \in MergeEvents : MergeWriteError(e)
    \/ MergeSourceEnd
    \/ MergePullError
    \/ MergeFinish
    \/ MergeFinishFail

-----------------------------------------------------------------------------
(* lhefix: fix_file *)

FixEvents == {"e1", "e2"}
FixSuffixes == {".lhe", ".fix.lhe.gz"}

\* args.suffix when --suffix is not given: default=".fix.lhe.gz"
FixDefaultSuffix == <<".fix.lhe.gz">>

\* a path is a directory and a file name, the name a stem and a suffix
Path(d, stem, sfx) == [dir |-> d, name |-> <<stem, sfx>>]

\* args.files: the names that can be given on the command line, in order
FixFiles == << Path("data", "in1", ".lhe"), Path("data", "in2", ".lhe"),
               Path("data", "in3", ".lhe") >>

\* the filepath argument of the current call
FixFilepath == FixFiles[fx_k]

\* output_path: filepath itself, or filepath_obj.parent / f"{stem}{suffix}"
OutputPath(filepath, suffix) ==
    IF suffix = <<>> THEN filepath
                     ELSE Path(filepath.dir, filepath.name[1], suffix[1])

\* a temporary file made in the system's default directory (no dir=)
TempPath_DefaultDir(filepath) == Path("/tmp", filepath.name[1] \o "_", ".tmp")

\* temp_path: mkstemp(prefix=stem + "_", suffix=".tmp...", dir=filepath_obj.parent)
TempPath(filepath) == Path(filepath.dir, filepath.name[1] \o "_", ".tmp")

\* os.path.exists(path)
Exists(fs, path) == path \in DOMAIN fs

\* os.unlink(path)
Unlink(fs, path) == [q \in (DOMAIN fs) \ {path} |-> fs[q]]

\* os.replace(src, dst)
Replace(fs, src, dst) == Unlink(Put(fs, dst, fs[src]), src)

\* an error handler that leaves the temporary file behind
CleanUp_Keep(fs, temp_path) == fs

\* `if os.path.exists(temp_path): os.unlink(temp_path)`
CleanUp(fs, temp_path) == IF Exists(fs, temp_path) THEN Unlink(fs, temp_path) ELSE fs

\* the header of the input
FixHeader == "init"

fxOut == OutputPath(FixFilepath, fx_suffix)
fxTemp == TempPath(FixFilepath)
fxLog(m) == fx_log' = Append(fx_log, [msg |-> m, n |-> fx_count])

\* main: no file named means fix_file(None, ...), else the loop over the files
FixInit ==
    /\ fx_mode \in {"stdin", "file"}
    /\ fx_pc = IF fx_mode = "stdin" THEN "read" ELSE "main"
    /\ fx_suffix \in {<<>>} \cup { <<s>> : s \in FixSuffixes }
    /\ fx_compress \in BOOLEAN
    /\ fx_nfiles \in (IF fx_mode = "stdin" THEN {0} ELSE 1..MaxFixFiles)
    /\ fx_k = 1
    /\ fx_results = <<>>
    /\ fx_fs \in { [q \in S |-> NoContent("orig")] :
                     S \in SUBSET UNION { { FixFiles[j], OutputPath(FixFiles[j], fx_suffix) } :
                                            j \in 1..fx_nfiles } }
    /\ fx_start = fx_fs
    /\ fx_fs0 = fx_fs
    /\ fx_stdout = NoContent("stdout")
    /\ fx_pulled = <<>> /\ fx_count = 0 /\ fx_log = <<>>
    /\ fx_replaced = 0 /\ fx_tmpmade = FALSE

FixIdle ==
    /\ fx_pc = "idle" /\ fx_mode = "stdin" /\ fx_suffix = <<>>
    /\ fx_compress = FALSE
    /\ fx_nfiles = 0 /\ fx_k = 1 /\ fx_results = <<>>
    /\ fx_fs = EmptyMap /\ fx_fs0 = EmptyMap /\ fx_start = EmptyMap
    /\ fx_stdout = NoContent("stdout")
    /\ fx_pulled = <<>> /\ fx_count = 0 /\ fx_log = <<>>
    /\ fx_replaced = 0 /\ fx_tmpmade = FALSE

\* the events pulled from the files main is through with
RECURSIVE fxPulledBefore(_)
fxPulledBefore(results) ==
    IF results = <<>> THEN 0 ELSE Head(results).n + fxPulledBefore(Tail(results))

\* main goes on to the next file, or is through with the last one
fxAdvance ==
    IF fx_k < fx_nfiles THEN fx_k' = fx_k + 1 /\ fx_pc' = "main"
                        ELSE fx_pc' = "finished" /\ UNCHANGED fx_k

\* `if not Path(filepath).exists():` a message is printed, then `continue`
FixMainMissing ==
    /\ fx_pc = "main"
    /\ ~Exists(fx_fs, FixFilepath)
    /\ fx_results' = Append(fx_results, [msg |-> "missing", n |-> 0])
    /\ fxAdvance
    /\ UNCHANGED <<fx_mode, fx_suffix, fx_compress, fx_nfiles, fx_start,
                   fx_fs, fx_fs0, fx_stdout, fx_pulled, fx_count, fx_log,
                   fx_replaced, fx_tmpmade, cvVars, spVars, mgVars, liVars,
                   shVars>>

\* fix_file(filepath, args.compress, args.suffix, ...) is called
FixMainCall ==
    /\ fx_pc = "main"
    /\ Exists(fx_fs, FixFilepath)
    /\ fx_pc' = "read"
    /\ fx_fs0' = fx_fs
    /\ fx_pulled' = <<>> /\ fx_count' = 0 /\ fx_log' = <<>>
    /\ fx_replaced' = 0 /\ fx_tmpmade' = FALSE
    /\ UNCHANGED <<fxMain, fx_fs, fx_stdout, cvVars, spVars, mgVars, liVars, shVars>>

\* fix_file has returned, with the file fixed or with "Error fixing ..."
FixMainNext ==
    /\ fx_pc = "done"
    /\ fx_mode = "file"
    /\ fx_results' = Append(fx_results,
                             [msg |-> IF fx_replaced = 1 THEN "fixed" ELSE "error",
                              n |-> fx_count])
    /\ fxAdvance
    /\ UNCHANGED <<fx_mode, fx_suffix, fx_compress, fx_nfiles, fx_start,
                   fx_fs, fx_fs0, fx_stdout, fx_pulled, fx_count, fx_log,
                   fx_replaced, fx_tmpmade, cvVars, spVars, mgVars, liVars,
                   shVars>>

\* lhefile = pylhe.LHEFile.frombuffer(sys.stdin) / fromfile(filepath)
FixRead ==
    /\ fx_pc = "read"
    /\ fx_pc' = IF fx_mode = "stdin" THEN "stdout" ELSE "mkstemp"
    /\ UNCHANGED <<fxMain, fx_fs, fx_fs0, fx_stdout, fx_pulled, fx_count,
                   fx_log, fx_replaced, fx_tmpmade, cvVars, spVars, mgVars, liVars,
                   shVars>>

\* an outer handler that ends the process for a named file as for stdin
FixOuterFail_Exits ==
    /\ fx_pc \in {"read", "mkstemp", "stdout", "stdout_stream", "stdout_yield"}
    /\ fxLog("error")
    /\ fx_pc' = "exit"
    /\ UNCHANGED <<fxMain, fx_fs, fx_fs0, fx_stdout, fx_pulled, fx_count,
                   fx_replaced, fx_tmpmade, cvVars, spVars, mgVars, liVars,
                   shVars>>

\* an exception reaches the outer handler: sys.exit(1) for stdin, a message
\* and a normal return for a file.  Raised by reading the input, by
\* mkstemp, or by writing to sys.stdout
FixOuterFail ==
    /\ fx_pc \in {"read", "mkstemp", "stdout", "stdout_stream", "stdout_yield"}
    /\ fxLog("error")
    /\ fx_pc' = IF fx_mode = "stdin" THEN "exit" ELSE "done"
    /\ UNCHANGED <<fxMain, fx_fs, fx_fs0, fx_stdout, fx_pulled, fx_count,
                   fx_replaced, fx_tmpmade, cvVars, spVars, mgVars, liVars,
                   shVars>>

\* write(sys.stdout): the header is serialized
FixStdoutHeader ==
    /\ fx_pc = "stdout"
    /\ fx_stdout' = [fx_stdout EXCEPT !.init = <<FixHeader>>]
    /\ fx_pc' = "stdout_stream"
    /\ UNCHANGED <<fxMain, fx_fs, fx_fs0, fx_pulled, fx_count,
                   fx_log, fx_replaced, fx_tmpmade, cvVars, spVars, mgVars, liVars,
                   shVars>>

\* temp_fd, temp_path = tempfile.mkstemp(...): an empty file is created
FixMkstemp ==
    /\ fx_pc = "mkstemp"
    /\ fx_fs' = Put(fx_fs, fxTemp, NoContent("new"))
    /\ fx_tmpmade' = TRUE
    /\ fx_pc' = "prepare"
    /\ UNCHANGED <<fxMain, fx_fs0, fx_stdout, fx_pulled, fx_count,
                   fx_log, fx_replaced, cvVars, spVars, mgVars, liVars, shVars>>

\* os.close(temp_fd); os.stat(filepath); os.chmod(temp_path, st_mode)
FixPrepare ==
    /\ fx_pc = "prepare"
    /\ fx_pc' = "write"
    /\ UNCHANGED <<fxMain, fx_fs, fx_fs0, fx_stdout, fx_pulled, fx_count,
                   fx_log, fx_replaced, fx_tmpmade, cvVars, spVars, mgVars, liVars,
                   shVars>>

\* tofile(temp_path) opens the temporary file and serializes the header
FixOpenTemp ==
    /\ fx_pc = "write"
    /\ fx_fs' = Put(fx_fs, fxTemp, [NoContent("new") EXCEPT !.init = <<FixHeader>>])
    /\ fx_pc' = "stream"
    /\ UNCHANGED <<fxMain, fx_fs0, fx_stdout, fx_pulled, fx_count,
                   fx_log, fx_replaced, fx_tmpmade, cvVars, spVars, mgVars, liVars,
                   shVars>>

\* `for event in lhefile.events: event_count += 1; yield event`: _generator
\* hands the next event to the writer and stays suspended at the yield
FixPull(e) ==
    /\ fx_pc \in {"stream", "stdout_stream"}
    /\ fxPulledBefore(fx_results) + Len(fx_pulled) < MaxFixEvents
    /\ fx_pulled' = Append(fx_pulled, e)
    /\ fx_count' = fx_count + 1
    /\ fx_pc' = IF fx_mode = "stdin" THEN "stdout_yield" ELSE "yield"
    /\ UNCHANGED <<fxMain, fx_fs, fx_fs0, fx_stdout, fx_log, fx_replaced,
                   fx_tmpmade, cvVars, spVars, mgVars, liVars, shVars>>

\* the writer serializes the event it was handed
FixWrite ==
    /\ fx_pc \in {"yield", "stdout_yield"}
    /\ IF fx_mode = "stdin"
       THEN /\ fx_stdout' = [fx_stdout EXCEPT
                                !.events = Append(@, fx_pulled[Len(fx_pulled)])]
            /\ fx_pc' = "stdout_stream"
            /\ UNCHANGED fx_fs
       ELSE /\ fx_fs' = [fx_fs EXCEPT
                            ![fxTemp].events = Append(@, fx_pulled[Len(fx_pulled)])]
            /\ fx_pc' = "stream"
            /\ UNCHANGED fx_stdout
    /\ UNCHANGED <<fxMain, fx_fs0, fx_pulled, fx_count, fx_log, fx_replaced,
                   fx_tmpmade, cvVars, spVars, mgVars, liVars, shVars>>

\* a generator without the handler: a decode error leaves the generator and
\* reaches the inner handler of fix_file (stdin: the outer one)
FixStreamEnd_Propagates(decodeError) ==
    /\ fx_pc \in {"stream", "stdout_stream"}
    /\ IF decodeError
       THEN /\ fx_pc' = IF fx_mode = "stdin" THEN "exit" ELSE "cleanup"
            /\ UNCHANGED <<fx_fs, fx_log, fx_stdout>>
       ELSE IF fx_mode = "stdin"
            THEN /\ fx_stdout' = [fx_stdout EXCEPT !.complete = TRUE]
                 /\ fx_pc' = "done"
                 /\ UNCHANGED <<fx_fs, fx_log>>
            ELSE /\ fx_fs' = [fx_fs EXCEPT ![fxTemp].complete = TRUE]
                 /\ fx_log' = Append(fx_log, [msg |-> "fixed", n |-> fx_count])
                 /\ fx_pc' = "replace"
                 /\ UNCHANGED fx_stdout
    /\ UNCHANGED <<fxMain, fx_fs0, fx_pulled, fx_count, fx_replaced,
                   fx_tmpmade, cvVars, spVars, mgVars, liVars, shVars>>

\* the stream ends, normally (decodeError = FALSE) or by an exception that
\* _generator catches: the messages are printed (file mode only) and the
\* writer closes the output
FixStreamEnd(decodeError) ==
    /\ fx_pc \in {"stream", "stdout_stream"}
    /\ IF fx_mode = "stdin"
       THEN /\ fx_stdout' = [fx_stdout EXCEPT !.complete = TRUE]
            /\ fx_pc' = "done"
            /\ UNCHANGED <<fx_fs, fx_log>>
       ELSE /\ fx_fs' = [fx_fs EXCEPT ![fxTemp].complete = TRUE]
            /\ fx_log' = fx_log
                  \o (IF decodeError THEN << [msg |-> "terminating", n |-> fx_count] >>
                                     ELSE <<>>)
                  \o << [msg |-> "fixed", n |-> fx_count] >>
            /\ fx_pc' = "replace"
            /\ UNCHANGED fx_stdout
    /\ UNCHANGED <<fxMain, fx_fs0, fx_pulled, fx_count, fx_replaced,
                   fx_tmpmade, cvVars, spVars, mgVars, liVars, shVars>>

\* the stream ends as in FixStreamEnd, _generator prints its messages, and
\* the write of the closing tag, or the close of the temporary file, raises
FixCloseFail(decodeError) ==
    /\ fx_pc = "stream"
    /\ fx_log' = fx_log
          \o (IF decodeError THEN << [msg |-> "terminating", n |-> fx_count] >>
                             ELSE <<>>)
          \o << [msg |-> "fixed", n |-> fx_count] >>
    /\ fx_pc' = "cleanup"
    /\ UNCHANGED <<fxMain, fx_fs, fx_fs0, fx_stdout, fx_pulled, fx_count,
                   fx_replaced, fx_tmpmade, cvVars, spVars, mgVars, liVars,
                   shVars>>

\* os.replace(temp_path, output_path)
FixReplace ==
    /\ fx_pc = "replace"
    /\ fx_fs' = Replace(fx_fs, fxTemp, fxOut)
    /\ fx_replaced' = fx_replaced + 1
    /\ fx_pc' = "done"
    /\ UNCHANGED <<fxMain, fx_fs0, fx_stdout, fx_pulled, fx_count,
                   fx_log, fx_tmpmade, cvVars, spVars, mgVars, liVars, shVars>>

\* an exception inside the inner try: os.close, os.stat or os.chmod, opening
\* the temporary file or writing the header, writing an event, or
\* os.replace raises
FixInnerFail ==
    /\ fx_pc \in {"prepare", "write", "yield", "replace"}
    /\ fx_pc' = "cleanup"
    /\ UNCHANGED <<fxMain, fx_fs, fx_fs0, fx_stdout, fx_pulled, fx_count,
                   fx_log, fx_replaced, fx_tmpmade, cvVars, spVars, mgVars, liVars,
                   shVars>>

\* the inner handler removes the temporary file and raises again; the outer
\* handler prints "Error fixing ..."; when it ends, a generator that is
\* still suspended is finalised and its `finally` prints "... fixed:
\* processed N events"; fix_file returns
\* _generator is still suspended when it has yielded an event (fx_count > 0)
\* and its `finally` has not run (no "fixed" line in the log)
FixCleanup ==
    /\ fx_pc = "cleanup"
    /\ fx_fs' = CleanUp(fx_fs, fxTemp)
    /\ fx_log' = fx_log \o << [msg |-> "error", n |-> fx_count] >>
                        \o (IF /\ fx_count > 0
                               /\ \A k \in 1..Len(fx_log) :
                                      fx_log[k].msg # "fixed"
                            THEN << [msg |-> "fixed", n |-> fx_count] >>
                            ELSE <<>>)
    /\ fx_pc' = "done"
    /\ UNCHANGED <<fxMain, fx_fs0, fx_stdout, fx_pulled, fx_count,
                   fx_replaced, fx_tmpmade, cvVars, spVars, mgVars, liVars,
                   shVars>>

FixNext ==
    \/ FixMainMissing
    \/ FixMainCall
    \/ FixMainNext
    \/ FixRead
    \/ FixOuterFail
    \/ FixStdoutHeader
    \/ FixMkstemp
    \/ FixPrepare
    \/ FixOpenTemp
    \/ \E e \in FixEvents : FixPull(e)
    \/ FixWrite
    \/ \E decodeError \in BOOLEAN : FixStreamEnd(decodeError)
    \/ \E decodeError \in BOOLEAN : FixCloseFail(decodeError)
    \/ FixReplace
    \/ FixInnerFail
    \/ FixCleanup

-----------------------------------------------------------------------------
(* lheinfo: LHEChannel, merge_channels, LHEAccumulatedInfo *)

\* sorted(list)
RECURSIVE SortInsert(_, _)
SortInsert(x, s) ==
    IF s = <<>> THEN <<x>>
    ELSE IF x <= Head(s) THEN <<x>> \o s
    ELSE <<Head(s)>> \o SortInsert(x, Tail(s))

RECURSIVE Sorted(_)
Sorted(s) == IF s = <<>> THEN <<>> ELSE SortInsert(Head(s), Sorted(Tail(s)))

LHEChannel(incoming, outgoing, n, neg) ==
    [incoming_pdgid |-> incoming, outgoing_pdgid |-> outgoing,
     num_events |-> n, num_negative_events |-> neg]

\* the dictionary key of a channel in merge_channels
ChannelKey(ch) == <<Sorted(ch.incoming_pdgid), Sorted(ch.outgoing_pdgid)>>

\* the position of a key in `merged` (a dict keeps insertion order), 0 if absent
KeyIndex(merged, key) ==
    IF \E i \in 1..Len(merged) : ChannelKey(merged[i]) = key
    THEN CHOOSE i \in 1..Len(merged) : ChannelKey(merged[i]) = key
    ELSE 0

\* one turn of the loop of merge_channels
MergeOne(merged, ch) ==
    LET i == KeyIndex(merged, ChannelKey(ch))
    IN  IF i = 0
        THEN Append(merged, LHEChannel(ch.incoming_pdgid, ch.outgoing_pdgid,
                                       0 + ch.num_events, 0 + ch.num_negative_events))
        ELSE [merged EXCEPT
                ![i].num_events = @ + ch.num_events,
                ![i].num_negative_events = @ + ch.num_negative_events]

RECURSIVE MergeLoop(_, _)
MergeLoop(merged, channels) ==
    IF channels = <<>> THEN merged
    ELSE MergeLoop(MergeOne(merged, Head(channels)), Tail(channels))

\* a merge that stores the sorted key as the PDG id lists of a channel
RECURSIVE MergeLoop_SortedLists(_, _)
MergeLoop_SortedLists(merged, channels) ==
    IF channels = <<>> THEN merged
    ELSE MergeLoop_SortedLists(
             MergeOne(merged,
                      LHEChannel(Sorted(Head(channels).incoming_pdgid),
                                 Sorted(Head(channels).outgoing_pdgid),
                                 Head(channels).num_events,
                                 Head(channels).num_negative_events)),
             Tail(channels))

merge_channels_SortedLists(channels) == MergeLoop_SortedLists(<<>>, channels)

\* a merge in which the first channel of a key wins and later ones are lost
RECURSIVE MergeLoop_FirstWins(_, _)
MergeLoop_FirstWins(merged, channels) ==
    IF channels = <<>> THEN merged
    ELSE MergeLoop_FirstWins(
             IF KeyIndex(merged, ChannelKey(Head(channels))) = 0
             THEN Append(merged, Head(channels)) ELSE merged,
             Tail(channels))

merge_channels_FirstWins(channels) == MergeLoop_FirstWins(<<>>, channels)

merge_channels(channels) == MergeLoop(<<>>, channels)

LHEAccumulatedInfo(n, neg, channels) ==
    [total_events |-> n, total_negative_weighted_events |-> neg,
     total_channels |-> channels]

\* an addition that merges the channels of the left operand only
LHEAccumulatedInfo_add_MergesSelfOnly(a, b) ==
    LHEAccumulatedInfo(
        a.total_events + b.total_events,
        a.total_negative_weighted_events + b.total_negative_weighted_events,
        merge_channels(a.total_channels) \o b.total_channels)

\* LHEAccumulatedInfo.__add__, and the value __iadd__ leaves in self
LHEAccumulatedInfo_add(a, b) ==
    LHEAccumulatedInfo(
        a.total_events + b.total_events,
        a.total_negative_weighted_events + b.total_negative_weighted_events,
        merge_channels(a.total_channels \o b.total_channels))

\* the summary get_lhesummary starts from
ZeroSummary == LHEAccumulatedInfo(0, 0, <<>>)

\* ---- the algebra of __add__: three summaries are given and the sums taken

\* channels a given summary may list: two spellings of one key, and another key
AggChannels ==
    { LHEChannel(inc, <<3>>, c[1], c[2]) :
        inc \in { <<1, 2>>, <<2, 1>>, <<1, 1>> },
        c \in { <<1, 0>>, <<2, 1>> } }

\* totals a given summary may carry
AggTotals == { <<0, 0>>, <<3, 1>> }

AggInit ==
    /\ ag_pc = "start"
    /\ \E la \in 0..MaxChannels :
       \E lb \in 0..(MaxChannels - la) :
       \E lc \in 0..(MaxChannels - la - lb) :
       \E ca \in [1..la -> AggChannels], cb \in [1..lb -> AggChannels],
          cc \in [1..lc -> AggChannels] :
       \E ta \in AggTotals, tb \in AggTotals, tc \in AggTotals :
          ag_in = << LHEAccumulatedInfo(ta[1], ta[2], ca),
                     LHEAccumulatedInfo(tb[1], tb[2], cb),
                     LHEAccumulatedInfo(tc[1], tc[2], cc) >>
    /\ ag_out = <<>>

AggIdle == ag_pc = "idle" /\ ag_in = <<>> /\ ag_out = <<>>

\* a + b, b + a, (a + b) + c, a + (b + c), a + zero and zero + a are computed
AggAdd ==
    /\ ag_pc = "start"
    /\ ag_out' = [ ab    |-> LHEAccumulatedInfo_add(ag_in[1], ag_in[2]),
                   ba    |-> LHEAccumulatedInfo_add(ag_in[2], ag_in[1]),
                   left  |-> LHEAccumulatedInfo_add(
                                 LHEAccumulatedInfo_add(ag_in[1], ag_in[2]), ag_in[3]),
                   right |-> LHEAccumulatedInfo_add(
                                 ag_in[1], LHEAccumulatedInfo_add(ag_in[2], ag_in[3])),
                   az    |-> LHEAccumulatedInfo_add(ag_in[1], ZeroSummary),
                   za    |-> LHEAccumulatedInfo_add(ZeroSummary, ag_in[1]) ]
    /\ ag_pc' = "done"
    /\ UNCHANGED <<ag_in, li_pc, li_nfiles, li_k, li_procs, li_events, li_num,
                   li_neg, li_combos, li_negcombos, li_last, li_acc,
                   cvVars, spVars, mgVars, fxVars, shVars>>

AggNext == AggAdd

-----------------------------------------------------------------------------
(* lheinfo: get_lheinfo, LHEInfo.print, get_lhesummary *)

Particle(id, status) == [id |-> id, status |-> status]

\* particle lists of an event: incoming ids out of order, the same channel
\* in order with an intermediate particle, and a second channel
InfoParticles ==
    { << Particle(2, -1), Particle(1, -1), Particle(3, 1) >>,
      << Particle(1, -1), Particle(2, -1), Particle(5, 2), Particle(3, 1) >>,
      << Particle(1, -1), Particle(1, -1), Particle(3, 1) >> }

\* events the decoder may hand out: eventinfo.pid, particles, eventinfo.weight
InfoEvents ==
    { [pid |-> p, particles |-> ps, weight |-> w] :
        p \in {1, 2}, ps \in InfoParticles, w \in {-1, 1} }

\* lhefile.init.procInfo as the list of its procId: both processes, one
\* process missing, one process listed twice
InfoProcs == { <<1, 2>>, <<1>>, <<1, 1>> }

\* the ids of the particles with the given status, in the order of the event
RECURSIVE IdsWithStatus(_, _)
IdsWithStatus(particles, status) ==
    IF particles = <<>> THEN <<>>
    ELSE (IF Head(particles).status = status THEN <<Head(particles).id>> ELSE <<>>)
         \o IdsWithStatus(Tail(particles), status)

\* combination = (event.eventinfo.pid, initial_tuple, final_tuple)
Combination(e) ==
    << e.pid, Sorted(IdsWithStatus(e.particles, -1)),
              Sorted(IdsWithStatus(e.particles, 1)) >>

\* Counter[key] += 1; a Counter keeps its keys in insertion order
CounterInc(c, key) ==
    IF \E i \in 1..Len(c) : c[i].key = key
    THEN [i \in 1..Len(c) |-> IF c[i].key = key
                              THEN [c[i] EXCEPT !.n = @ + 1] ELSE c[i]]
    ELSE Append(c, [key |-> key, n |-> 1])

\* Counter.get(key, 0)
CounterGet(c, key) ==
    IF \E i \in 1..Len(c) : c[i].key = key
    THEN (CHOOSE r \in { c[i] : i \in 1..Len(c) } : r.key = key).n
    ELSE 0

\* the channels of LHEProcess(procId): the combinations with pid == procId
RECURSIVE ProcessChannels(_, _, _)
ProcessChannels(procId, combos, negcombos) ==
    IF combos = <<>> THEN <<>>
    ELSE (IF Head(combos).key[1] = procId
          THEN << LHEChannel(Head(combos).key[2], Head(combos).key[3],
                             Head(combos).n,
                             CounterGet(negcombos, Head(combos).key)) >>
          ELSE <<>>)
         \o ProcessChannels(procId, Tail(combos), negcombos)

\* [channel for pi in self.process_info for channel in pi.channels]
RECURSIVE AllChannels(_, _, _)
AllChannels(procs, combos, negcombos) ==
    IF procs = <<>> THEN <<>>
    ELSE ProcessChannels(Head(procs), combos, negcombos)
         \o AllChannels(Tail(procs), combos, negcombos)

\* what LHEInfo.print returns for the LHEInfo that get_lheinfo built
LHEInfo_print(procs, num, neg, combos, negcombos) ==
    LHEAccumulatedInfo(num, neg,
                       merge_channels(AllChannels(procs, combos, negcombos)))

InfoInit ==
    /\ li_pc = "next"
    /\ li_nfiles \in 1..MaxInfoFiles
    /\ li_k = 0
    /\ li_procs = <<>> /\ li_events = <<>>
    /\ li_num = 0 /\ li_neg = 0
    /\ li_combos = <<>> /\ li_negcombos = <<>>
    /\ li_last = <<>>
    /\ li_acc = ZeroSummary

InfoIdle ==
    /\ li_pc = "idle" /\ li_nfiles = 0 /\ li_k = 0
    /\ li_procs = <<>> /\ li_events = <<>>
    /\ li_num = 0 /\ li_neg = 0
    /\ li_combos = <<>> /\ li_negcombos = <<>>
    /\ li_last = <<>>
    /\ li_acc = ZeroSummary

\* get_lheinfo: the file is opened, its header decoded, the counters reset
InfoOpen(procs) ==
    /\ li_pc = "next"
    /\ li_k < li_nfiles
    /\ li_procs' = procs
    /\ li_events' = <<>>
    /\ li_num' = 0 /\ li_neg' = 0
    /\ li_combos' = <<>> /\ li_negcombos' = <<>>
    /\ li_pc' = "events"
    /\ UNCHANGED <<li_nfiles, li_k, li_last, li_acc, ag_pc, ag_in, ag_out,
                   cvVars, spVars, mgVars, fxVars, shVars>>

\* fromfile/frombuffer raises: get_lhesummary has no handler
InfoOpenFail ==
    /\ li_pc = "next"
    /\ li_k < li_nfiles
    /\ li_pc' = "raised"
    /\ UNCHANGED <<li_nfiles, li_k, li_procs, li_events, li_num, li_neg,
                   li_combos, li_negcombos, li_last, li_acc,
                   ag_pc, ag_in, ag_out, cvVars, spVars, mgVars, fxVars,
                   shVars>>

\* one turn of `for event in lhefile.events`
InfoPull(e) ==
    /\ li_pc = "events"
    /\ li_acc.total_events + li_num < MaxInfoEvents
    /\ li_events' = Append(li_events, e)
    /\ li_num' = li_num + 1
    /\ li_combos' = CounterInc(li_combos, Combination(e))
    /\ IF e.weight < 0
       THEN /\ li_neg' = li_neg + 1
            /\ li_negcombos' = CounterInc(li_negcombos, Combination(e))
       ELSE UNCHANGED <<li_neg, li_negcombos>>
    /\ UNCHANGED <<li_pc, li_nfiles, li_k, li_procs, li_last, li_acc,
                   ag_pc, ag_in, ag_out, cvVars, spVars, mgVars, fxVars,
                   shVars>>

\* the decoder raises in the middle of the events
InfoPullError ==
    /\ li_pc = "events"
    /\ li_pc' = "raised"
    /\ UNCHANGED <<li_nfiles, li_k, li_procs, li_events, li_num, li_neg,
                   li_combos, li_negcombos, li_last, li_acc,
                   ag_pc, ag_in, ag_out, cvVars, spVars, mgVars, fxVars,
                   shVars>>

\* the events are exhausted: LHEInfo is built, lheacc += lheinfo.print()
InfoFileEnd ==
    /\ li_pc = "events"
    /\ li_last' = << LHEInfo_print(li_procs, li_num, li_neg, li_combos, li_negcombos) >>
    /\ li_acc' = LHEAccumulatedInfo_add(
                     li_acc,
                     LHEInfo_print(li_procs, li_num, li_neg, li_combos, li_negcombos))
    /\ li_k' = li_k + 1
    /\ li_pc' = "next"
    /\ UNCHANGED <<li_nfiles, li_procs, li_events, li_num, li_neg, li_combos,
                   li_negcombos, ag_pc, ag_in, ag_out,
                   cvVars, spVars, mgVars, fxVars, shVars>>

\* return lheacc
InfoReturn ==
    /\ li_pc = "next"
    /\ li_k = li_nfiles
    /\ li_pc' = "done"
    /\ UNCHANGED <<li_nfiles, li_k, li_procs, li_events, li_num, li_neg,
                   li_combos, li_negcombos, li_last, li_acc,
                   ag_pc, ag_in, ag_out, cvVars, spVars, mgVars, fxVars,
                   shVars>>

InfoNext ==
    \/ \E procs \in InfoProcs : InfoOpen(procs)
    \/ InfoOpenFail
    \/ \E e \in InfoEvents : InfoPull(e)
    \/ InfoPullError
    \/ InfoFileEnd
    \/ InfoReturn

-----------------------------------------------------------------------------
(* lheshow: main, show_event, show_init *)

\* one print() to stdout made for the k-th file
ShowLine(k, kind, n) == [file |-> k, kind |-> kind, n |-> n]

\* `if file_inputs_count > 1: print(f"=== {file_display_name} ===")`
ShowBanner(out) ==
    IF sh_nfiles > 1 THEN Append(out, ShowLine(sh_k, "name", 0)) ELSE out

ShowInit ==
    /\ sh_pc = "main"
    /\ sh_nfiles \in 1..MaxShowFiles
    /\ sh_k = 1
    /\ sh_event \in {<<>>} \cup { <<n>> : n \in -1..MaxShowEvents }
    /\ sh_i = 0
    /\ sh_out = <<>>
    /\ sh_err = <<>>

ShowIdle ==
    /\ sh_pc = "idle" /\ sh_nfiles = 0 /\ sh_k = 0 /\ sh_event = <<>>
    /\ sh_i = 0 /\ sh_out = <<>> /\ sh_err = <<>>

\* the call returns: the `for file_input in file_inputs` loop goes on
shReturn ==
    /\ sh_k' = sh_k + 1
    /\ sh_pc' = IF sh_k < sh_nfiles THEN "main" ELSE "finished"

\* `for file_input in file_inputs:` calls show_event or show_init
ShowMainCall ==
    /\ sh_pc = "main"
    /\ sh_pc' = "open"
    /\ sh_i' = 0
    /\ UNCHANGED <<sh_err, sh_nfiles, sh_k, sh_event, sh_out,
                   cvVars, spVars, mgVars, fxVars, liVars>>

\* fromfile raises: the handler prints the error and calls sys.exit(1)
ShowOpenFail ==
    /\ sh_pc = "open"
    /\ sh_pc' = "exit"
    /\ sh_err' = Append(sh_err, ShowLine(sh_k, "reading", 0))
    /\ UNCHANGED <<sh_nfiles, sh_k, sh_event, sh_i, sh_out,
                   cvVars, spVars, mgVars, fxVars, liVars>>

\* show_init: the header is decoded and printed
ShowOpenInit ==
    /\ sh_pc = "open"
    /\ sh_event = <<>>
    /\ sh_out' = Append(ShowBanner(sh_out), ShowLine(sh_k, "init", 0))
    /\ shReturn
    /\ UNCHANGED <<sh_err, sh_nfiles, sh_event, sh_i,
                   cvVars, spVars, mgVars, fxVars, liVars>>

\* show_init: a print raises, that of the name line (nothing of the file is
\* on stdout) or that of the header after the name line was printed;
\* `except Exception` prints "Error reading file ..." and calls sys.exit(1)
ShowInitPrintFail(afterBanner) ==
    /\ sh_pc = "open"
    /\ sh_event = <<>>
    /\ afterBanner => sh_nfiles > 1
    /\ sh_out' = IF afterBanner THEN ShowBanner(sh_out) ELSE sh_out
    /\ sh_err' = Append(sh_err, ShowLine(sh_k, "reading", 0))
    /\ sh_pc' = "exit"
    /\ UNCHANGED <<sh_nfiles, sh_k, sh_event, sh_i,
                   cvVars, spVars, mgVars, fxVars, liVars>>

\* show_event: the header is decoded; `if target_index < 0:` sys.exit(1)
ShowOpenEvent ==
    /\ sh_pc = "open"
    /\ sh_event # <<>>
    /\ IF sh_event[1] < 0
       THEN /\ sh_pc' = "exit"
            /\ sh_err' = Append(sh_err, ShowLine(sh_k, "negative", 0))
       ELSE /\ sh_pc' = "events"
            /\ UNCHANGED sh_err
    /\ UNCHANGED <<sh_nfiles, sh_k, sh_event, sh_i, sh_out,
                   cvVars, spVars, mgVars, fxVars, liVars>>

\* one iteration of `for i, event in enumerate(lhefile.events, start=1)`
ShowPull ==
    /\ sh_pc = "events"
    /\ sh_i < MaxShowEvents
    /\ sh_i' = sh_i + 1
    /\ IF sh_i + 1 = sh_event[1]
       THEN /\ sh_out' = Append(ShowBanner(sh_out),
                                ShowLine(sh_k, "event", sh_i + 1))
            /\ shReturn
       ELSE UNCHANGED <<sh_pc, sh_k, sh_out>>
    /\ UNCHANGED <<sh_err, sh_nfiles, sh_event,
                   cvVars, spVars, mgVars, fxVars, liVars>>

\* show_event: the target event is reached and a print raises, that of the
\* name line or that of the event after the name line was printed;
\* `except Exception` prints "Error reading file ..." and calls sys.exit(1)
ShowEventPrintFail(afterBanner) ==
    /\ sh_pc = "events"
    /\ sh_i < MaxShowEvents
    /\ sh_i + 1 = sh_event[1]
    /\ afterBanner => sh_nfiles > 1
    /\ sh_i' = sh_i + 1
    /\ sh_out' = IF afterBanner THEN ShowBanner(sh_out) ELSE sh_out
    /\ sh_err' = Append(sh_err, ShowLine(sh_k, "reading", sh_i + 1))
    /\ sh_pc' = "exit"
    /\ UNCHANGED <<sh_nfiles, sh_k, sh_event,
                   cvVars, spVars, mgVars, fxVars, liVars>>

\* the events end before the target: "Event N not found", sys.exit(1)
ShowNotFound ==
    /\ sh_pc = "events"
    /\ sh_pc' = "exit"
    /\ sh_err' = Append(sh_err, ShowLine(sh_k, "not found", sh_i))
    /\ UNCHANGED <<sh_nfiles, sh_k, sh_event, sh_i, sh_out,
                   cvVars, spVars, mgVars, fxVars, liVars>>

\* decoding an event raises: `except Exception` prints it, sys.exit(1)
ShowPullError ==
    /\ sh_pc = "events"
    /\ sh_pc' = "exit"
    /\ sh_err' = Append(sh_err, ShowLine(sh_k, "reading", sh_i))
    /\ UNCHANGED <<sh_nfiles, sh_k, sh_event, sh_i, sh_out,
                   cvVars, spVars, mgVars, fxVars, liVars>>

ShowNext ==
    \/ ShowMainCall
    \/ ShowOpenFail
    \/ ShowOpenInit
    \/ \E afterBanner \in BOOLEAN : ShowInitPrintFail(afterBanner)
    \/ ShowOpenEvent
    \/ ShowPull
    \/ \E afterBanner \in BOOLEAN : ShowEventPrintFail(afterBanner)
    \/ ShowNotFound
    \/ ShowPullError

-----------------------------------------------------------------------------
(* Specifications: one tool runs, the others are idle *)

InitConvert == ConvertInit /\ SplitIdle /\ MergeIdle /\ FixIdle /\ AggIdle /\ InfoIdle /\ ShowIdle
InitSplit == ConvertIdle /\ SplitInit /\ MergeIdle /\ FixIdle /\ AggIdle /\ InfoIdle /\ ShowIdle
InitMerge == ConvertIdle /\ SplitIdle /\ MergeInit /\ FixIdle /\ AggIdle /\ InfoIdle /\ ShowIdle
InitFix == ConvertIdle /\ SplitIdle /\ MergeIdle /\ FixInit /\ AggIdle /\ InfoIdle /\ ShowIdle
InitAgg == ConvertIdle /\ SplitIdle /\ MergeIdle /\ FixIdle /\ AggInit /\ InfoIdle /\ ShowIdle
InitInfo == ConvertIdle /\ SplitIdle /\ MergeIdle /\ FixIdle /\ AggIdle /\ InfoInit /\ ShowIdle

SpecConvert == InitConvert /\ [][ConvertNext]_vars
SpecSplit == InitSplit /\ [][SplitNext]_vars
SpecMerge == InitMerge /\ [][MergeNext]_vars
SpecFix == InitFix /\ [][FixNext]_vars
SpecAgg == InitAgg /\ [][AggNext]_vars
SpecInfo == InitInfo /\ [][InfoNext]_vars
InitShow == ConvertIdle /\ SplitIdle /\ MergeIdle /\ FixIdle /\ AggIdle /\ InfoIdle /\ ShowInit
SpecShow == InitShow /\ [][ShowNext]_vars

\* the two tools that read a batch of files and only print
SpecView == (InitInfo \/ InitShow) /\ [][InfoNext \/ ShowNext]_vars

\* the two tools that can write to stdout and take a compress option
SpecStdout == (InitConvert \/ InitFix) /\ [][ConvertNext \/ FixNext]_vars

Init ==
    \/ InitConvert \/ InitSplit \/ InitMerge \/ InitFix \/ InitAgg \/ InitInfo
    \/ InitShow
Next ==
    \/ ConvertNext \/ SplitNext \/ MergeNext \/ FixNext \/ AggNext \/ InfoNext
    \/ ShowNext
Spec == Init /\ [][Next]_vars

-----------------------------------------------------------------------------
(* Properties *)

\* the weights of a header as (group, id) pairs
WeightsOf(init) == { p \in GroupNames \X WeightIds :
                       p[1] \in DOMAIN init /\ p[2] \in DOMAIN init[p[1]] }

\* a state of lhe2lhe in which nothing has been written and no event pulled
cvNothingWritten ==
    /\ cv_pulled = <<>>
    /\ cv_stdout = NoContent("new")
    /\ cv_file.state # "new"

\* C1: weight index monotonicity.  Every step of convert_lhe_file that
\* registers a weight (an add_initrwgt entry or append_lhe_weight) gives the
\* new weight the index (largest index in the header before the step) + 1,
\* and leaves a header whose indices are distinct positive integers.
C1_WeightIndexMonotonic ==
    [][ (cv_pc \in {"addloop", "append"} /\ WeightsOf(cv_init') # WeightsOf(cv_init))
        => /\ \A p \in WeightsOf(cv_init') \ WeightsOf(cv_init) :
                 cv_init'[p[1]][p[2]].index
                    = (IF AllIndices(cv_init) = {} THEN 0 ELSE SetMax(AllIndices(cv_init))) + 1
           /\ \A p \in WeightsOf(cv_init') : cv_init'[p[1]][p[2]].index > 0
           /\ \A p, q \in WeightsOf(cv_init') :
                 p # q => cv_init'[p[1]][p[2]].index # cv_init'[q[1]][q[2]].index
      ]_vars

\* C2: weight uniqueness.  A registration (add_initrwgt entry or
\* append_lhe_weight) of an id that some group of the header already holds,
\* whatever the target group, returns 1, leaves the header as it was, and
\* nothing has been written or pulled when the call ends.
C2_DuplicateWeightIdFails ==
    [][ \A g \in GroupNames, id \in WeightIds, t \in WeightTexts :
          ( /\ ConvertAddEntry(g, id, t) \/ ConvertAppend(g, id, t)
            /\ \E p \in WeightsOf(cv_init) : p[2] = id )
          => /\ cv_ret' = <<1>> /\ cv_pc' = "done"
             /\ cv_init' = cv_init
             /\ cvNothingWritten'
      ]_vars

\* C2 witness: the second add_initrwgt entry failed after the first one had
\* been registered, and the call has ended with an error
C2_Witness ==
    /\ cv_pc = "done" /\ cv_ret = <<1>>
    /\ cv_nadd = 2 /\ cv_append = <<>>
    /\ Cardinality({ p \in WeightsOf(cv_init) : cv_init[p[1]][p[2]].name = "t" }) = 1
    /\ cvNothingWritten

\* C3: restricting to a weight id that no group of the header holds fails
\* before anything is pulled or written: once only_weight_id has been applied
\* and the id was absent, nothing is ever written or pulled and the call does
\* not return 0.
C3_RestrictMissingIdFails ==
    (cv_only # <<>> /\ ~(\E p \in WeightsOf(cv_init) : p[2] = cv_only[1]))
    => (cvNothingWritten /\ cv_ret # <<0>>)

\* ceil(n / k) for k >= 1
CeilDiv(n, k) == (n + k - 1) \div k

\* the concatenation of a sequence of sequences
RECURSIVE Concat(_)
Concat(ss) == IF ss = <<>> THEN <<>> ELSE Head(ss) \o Concat(Tail(ss))

\* C4: split/rejoin.  When split_lhe_file has returned 0 for a source of N
\* events and a chunk size K >= 1, it has written ceil(N/K) chunks (one empty
\* chunk for N = 0), no chunk holds more than K events, the last chunk is not
\* empty when N > 0, and the chunks in order give back the source.
C4_SplitRejoin ==
    (sp_pc = "done" /\ sp_ret = <<0>> /\ sp_K >= 1)
    => /\ Len(sp_files) = IF Len(sp_src) = 0 THEN 1 ELSE CeilDiv(Len(sp_src), sp_K)
       /\ \A i \in 1..Len(sp_files) : Len(sp_files[i]) <= sp_K
       /\ Len(sp_src) > 0 => sp_files[Len(sp_files)] # <<>>
       /\ Concat(sp_files) = sp_src

\* C5: a chunk size of zero or less is an error: no output file is ever
\* written, and when the call has ended it has returned 1.
C5_InvalidChunkSize ==
    sp_K <= 0 => /\ sp_files = <<>>
                 /\ sp_pc = "done" => sp_ret = <<1>>

\* the merge has pulled no event and written nothing
mgNothingDone ==
    /\ mg_total = 0
    /\ \A k \in 1..mg_n : mg_pulled[k] = <<>>
    /\ mg_out \in {NoContent("absent"), NoContent("orig"), NoContent("stdout")}

\* C6: merge atomicity.  A merge returns 0 only when every header equals the
\* first; when a header differs from the first or a source cannot be opened,
\* the call ends with 1 and has pulled no event and written nothing.
C6_MergeNeedsEqualHeaders ==
    /\ mg_ret = <<0>> =>
          (Len(mg_inits) = mg_n /\ \A k \in 1..mg_n : mg_inits[k] = mg_inits[1])
    /\ (Len(mg_inits) = mg_n /\ mg_pc # "read"
          /\ \E k \in 1..mg_n : mg_inits[k] # mg_inits[1])
       => (mg_pc = "done" /\ mg_ret = <<1>> /\ mgNothingDone)
    /\ (mg_pc # "read" /\ Len(mg_inits) < mg_n)
       => (mg_pc = "done" /\ mg_ret = <<1>> /\ mgNothingDone)

\* C6 witness: two headers that differ in one field only were refused
C6_Witness ==
    /\ mg_pc = "done" /\ mg_ret = <<1>>
    /\ mg_n = 2 /\ Len(mg_inits) = 2
    /\ mg_inits[1].beam = mg_inits[2].beam
    /\ mg_inits[1].xsec # mg_inits[2].xsec

\* C7: merge event order.  No event of a source is pulled before every
\* earlier source of the input list is exhausted, what has been written is
\* at all times the concatenation, in list order, of what has been pulled,
\* and a merge that returned 0 wrote the first header and the complete
\* streams of all sources.  When the write of an event raised, the exception
\* has left merge_lhe_files and the last event pulled is the one that was
\* not written.
C7_MergeEventOrder ==
    /\ \A j, k \in 1..mg_n : (j < k /\ mg_pulled[k] # <<>>) => mg_ended[j]
    /\ \/ mg_out.events = Concat(mg_pulled)
       \/ /\ mg_pc = "raised" /\ Concat(mg_pulled) # <<>>
          /\ mg_out.events
               = SubSeq(Concat(mg_pulled), 1, Len(Concat(mg_pulled)) - 1)
    /\ mg_ret = <<0>> => /\ mg_out.init = <<mg_inits[1]>>
                         /\ mg_out.complete
                         /\ \A k \in 1..mg_n : mg_ended[k]
                         /\ mg_total = Len(mg_out.events)

\* C7 witness: [e1, e2] and [e1] were merged
C7_Witness ==
    /\ mg_pc = "done" /\ mg_ret = <<0>> /\ mg_n = 2
    /\ mg_pulled[1] = <<"e1", "e2">>
    /\ mg_pulled[2] = <<"e1">>

\* C8: a merge of two or more sources to a named file that fails while
\* decoding, after events have been written, leaves the output path as it
\* was before the call.
C8_MergeAbortsEntirely ==
    (mg_tofile /\ mg_n >= 2 /\ mg_pc = "raised" /\ mg_total > 0)
    => mg_out \in {NoContent("absent"), NoContent("orig")}

\* the file at a path: <<content>>, or <<>> when there is none
FileAt(fs, path) == IF path \in DOMAIN fs THEN << fs[path] >> ELSE <<>>

\* C9: safe writer.  The destination of fix_file changes in one step only:
\* the os.replace that follows the complete write of the temporary file,
\* which lies in the destination's directory and becomes the destination;
\* and a call that ends without that replace has removed the temporary file
\* and left the destination as it was.
C9_FixReplacesAtomically ==
    /\ [][ FileAt(fx_fs', fxOut) # FileAt(fx_fs, fxOut)
           => /\ fx_pc = "replace" /\ fx_replaced = 0 /\ fx_replaced' = 1
              /\ fxTemp.dir = fxOut.dir
              /\ Exists(fx_fs, fxTemp) /\ fx_fs[fxTemp].complete
              /\ fx_fs[fxTemp].events = fx_pulled
              /\ FileAt(fx_fs', fxOut) = << fx_fs[fxTemp] >>
         ]_vars
    /\ [] ( (fx_mode = "file" /\ fx_pc = "done" /\ fx_replaced = 0)
            => /\ ~Exists(fx_fs, fxTemp)
               /\ FileAt(fx_fs, fxOut) = FileAt(fx_fs0, fxOut) )

\* C9 witness: the write of the second event to the temporary file failed,
\* over a destination that existed
C9_Witness ==
    /\ fx_mode = "file" /\ fx_pc = "done" /\ fx_tmpmade
    /\ Len(fx_pulled) = 2 /\ fx_replaced = 0
    /\ fx_log = << [msg |-> "error", n |-> 2], [msg |-> "fixed", n |-> 2] >>
    /\ fx_suffix # <<>> /\ fxOut # FixFilepath
    /\ Exists(fx_fs0, fxOut)

\* C10: temporary file lifecycle.  Once fix_file has ended after mkstemp,
\* no file is left under the temporary name: it has become the destination
\* or it has been deleted.
C10_TempFileNeverLeft ==
    (fx_pc \in {"done", "exit"} /\ fx_tmpmade)
    => /\ ~Exists(fx_fs, fxTemp)
       /\ fx_replaced = 1 => (Exists(fx_fs, fxOut) /\ fx_fs[fxOut].complete)

\* C10 witness: the stream was written completely and os.replace failed
C10_Witness ==
    /\ fx_pc = "done" /\ fx_tmpmade /\ fx_replaced = 0
    /\ Len(fx_log) = 2
    /\ fx_log[1].msg = "fixed" /\ fx_log[2].msg = "error"

\* C11: repair mode.  A decode error after M events is caught by _generator:
\* the step leaves M events, in order, in a closed output (the temporary
\* file, or stdout), prints M as truncation point and as event count (file
\* mode) and goes on to os.replace; a replace that succeeds leaves exactly
\* the M pulled events at the destination.
C11_FixTruncatesAtDecodeError ==
    /\ [][ FixStreamEnd(TRUE)
           => IF fx_mode = "stdin"
              THEN /\ fx_pc' = "done"
                   /\ fx_stdout'.events = fx_pulled /\ fx_stdout'.complete
              ELSE /\ fx_pc' = "replace"
                   /\ fx_fs'[fxTemp].events = fx_pulled /\ fx_fs'[fxTemp].complete
                   /\ fx_count = Len(fx_pulled)
                   /\ fx_log' = fx_log \o << [msg |-> "terminating", n |-> Len(fx_pulled)],
                                             [msg |-> "fixed", n |-> Len(fx_pulled)] >>
         ]_vars
    /\ [] ( (fx_mode = "file" /\ fx_pc = "done" /\ fx_replaced = 1)
            => /\ Exists(fx_fs, fxOut)
               /\ fx_fs[fxOut].events = fx_pulled
               /\ fx_fs[fxOut].complete )

\* C11 witness: the decoder raised after one event and the file with that
\* one event has replaced the destination
C11_Witness ==
    /\ fx_mode = "file" /\ fx_pc = "done" /\ fx_replaced = 1
    /\ fx_pulled = <<"e2">>
    /\ fx_log = << [msg |-> "terminating", n |-> 1], [msg |-> "fixed", n |-> 1] >>
    /\ Exists(fx_fs, fxOut) /\ fx_fs[fxOut].events = <<"e2">>

\* C12: compress with stdout as destination is rejected before any I/O, in
\* convert_lhe_file and in fix_file: the input is not read, nothing is
\* written, and the run ends as an error.
C12_CompressStdoutRejectedBeforeIO ==
    /\ (cv_pc # "idle" /\ cv_output = <<>> /\ cv_compress)
       => /\ cv_pc \in {"read", "done"}
          /\ cv_init = EmptyMap /\ cv_pulled = <<>>
          /\ cv_stdout = NoContent("new")
          /\ cv_pc = "done" => cv_ret = <<1>>
    /\ (fx_pc # "idle" /\ fx_mode = "stdin" /\ fx_compress)
       => /\ fx_pc \in {"read", "exit"}
          /\ fx_pulled = <<>>
          /\ fx_stdout = NoContent("stdout")

\* what convert_lhe_file has written: the header and the events
cvOut == IF cv_output = <<>> THEN cv_stdout ELSE cv_file

\* the weight mapping of an event when the restriction looks at it: with
\* append_lhe_weight the appended entry is already in it
cvWeightsSeen(e) ==
    IF cv_append # <<>> THEN Put(e.weights, cv_append[1].id, e.weight)
    ELSE e.weights

RECURSIVE RestrictedStream(_, _)
RestrictedStream(evs, id) ==
    IF evs = <<>> THEN <<>>
    ELSE (IF id \in DOMAIN cvWeightsSeen(Head(evs))
          THEN << [weight |-> cvWeightsSeen(Head(evs))[id], weights |-> EmptyMap] >>
          ELSE <<>>)
         \o RestrictedStream(Tail(evs), id)

\* all but the last
cvFront(evs) == SubSeq(evs, 1, Len(evs) - 1)

\* the output holds the restriction of the events evs
cvRestrictedOf(evs) ==
    /\ cvOut.events = RestrictedStream(evs, cv_only[1])
    /\ Len(cvOut.events)
         = Len(evs)
           - Cardinality({ k \in 1..Len(evs) :
                             cv_only[1] \notin DOMAIN cvWeightsSeen(evs[k]) })

\* C13: under only_weight_id the events written are, in the order pulled,
\* the pulled events whose weight mapping contains the id, each with the
\* central weight set to that weight's value and an empty weight mapping;
\* the events without the id are dropped, so the output is shorter than the
\* input by their number.
\* When the write of an event raised, the call has returned 1 and the last
\* event pulled is the one that was not written.
C13_RestrictStream ==
    cv_only # <<>>
    => \/ cvRestrictedOf(cv_pulled)
       \/ /\ cv_ret = <<1>> /\ cv_pulled # <<>>
          /\ cvRestrictedOf(cvFront(cv_pulled))

\* C13 witness: two events pulled, the first without weight "b": only the
\* second is written, with central weight 9 and no alternate weights
C13_Witness ==
    /\ cv_pc = "done" /\ cv_ret = <<0>>
    /\ cv_only = <<"b">> /\ cv_append = <<>>
    /\ cv_pulled = << [weight |-> 1, weights |-> [i \in {"a"} |-> 7]],
                      [weight |-> 2,
                       weights |-> [i \in {"a", "b"} |-> IF i = "a" THEN 7 ELSE 9]] >>
    /\ cvOut.events = << [weight |-> 9, weights |-> EmptyMap] >>

\* the output holds the events evs, each with the appended weight
cvAppendedOf(evs) ==
    /\ Len(cvOut.events) = Len(evs)
    /\ \A k \in 1..Len(evs) :
         /\ cvOut.events[k].weight = evs[k].weight
         /\ DOMAIN cvOut.events[k].weights
              = DOMAIN evs[k].weights \cup {cv_append[1].id}
         /\ cvOut.events[k].weights[cv_append[1].id] = evs[k].weight
         /\ \A i \in DOMAIN evs[k].weights \ {cv_append[1].id} :
              cvOut.events[k].weights[i] = evs[k].weights[i]

\* C14: under append_lhe_weight without only_weight_id every pulled event is
\* written once, in order, with weights[id] equal to its own central weight,
\* the central weight and the other weight entries as they were; the header
\* written lists the id in the group given.
\* When the write of an event raised, the call has returned 1 and the last
\* event pulled is the one that was not written.
C14_AppendStream ==
    (cv_append # <<>> /\ cv_only = <<>>)
    => /\ \/ cvAppendedOf(cv_pulled)
          \/ /\ cv_ret = <<1>> /\ cv_pulled # <<>>
             /\ cvAppendedOf(cvFront(cv_pulled))
       /\ cvOut.init # <<>>
          => /\ cv_append[1].group \in DOMAIN cvOut.init[1]
             /\ cv_append[1].id \in DOMAIN cvOut.init[1][cv_append[1].group]

\* C14 witness: weight "b" appended to two events, one of which had a
\* weight "a" that is still there
C14_Witness ==
    /\ cv_pc = "done" /\ cv_ret = <<0>>
    /\ cv_append # <<>> /\ cv_append[1].id = "b" /\ cv_only = <<>>
    /\ cv_pulled = << [weight |-> 1, weights |-> [i \in {"a"} |-> 7]],
                      [weight |-> 2, weights |-> EmptyMap] >>
    /\ cvOut.events = << [weight |-> 1,
                          weights |-> [i \in {"a", "b"} |-> IF i = "a" THEN 7 ELSE 1]],
                         [weight |-> 2, weights |-> [i \in {"b"} |-> 2]] >>

\* C15: every step that changes the header is taken while no event has been
\* pulled and nothing has been written, and leaves it so; the header that
\* was written is the header in memory for the rest of the run.
C15_HeaderFixedBeforeStream ==
    /\ [][ cv_init' # cv_init
           => /\ cv_pc \in {"read", "addloop", "append", "only"}
              /\ cvNothingWritten /\ cvNothingWritten' ]_vars
    /\ [] ( cvOut.init # <<>> => cvOut.init = <<cv_init>> )

\* C15 witness: the header was changed by add_initrwgt, append_lhe_weight
\* and only_weight_id, then written, and two events followed it
C15_Witness ==
    /\ cv_pc = "done" /\ cv_ret = <<0>>
    /\ cv_nadd >= 1 /\ cv_append # <<>> /\ cv_only # <<>>
    /\ Len(cv_pulled) = 2
    /\ cvOut.init = <<cv_init>> /\ cv_init # EmptyMap

\* the channels of a summary as a set
ChannelSet(s) == { s.total_channels[i] : i \in 1..Len(s.total_channels) }

\* the keys of a channel list
KeysOf(channels) == { ChannelKey(channels[i]) : i \in 1..Len(channels) }

\* the events, and the negative events, that a channel list counts for a key
RECURSIVE KeyEvents(_, _)
KeyEvents(channels, key) ==
    IF channels = <<>> THEN 0
    ELSE (IF ChannelKey(Head(channels)) = key THEN Head(channels).num_events ELSE 0)
         + KeyEvents(Tail(channels), key)

RECURSIVE KeyNegative(_, _)
KeyNegative(channels, key) ==
    IF channels = <<>> THEN 0
    ELSE (IF ChannelKey(Head(channels)) = key
          THEN Head(channels).num_negative_events ELSE 0)
         + KeyNegative(Tail(channels), key)

\* no two entries of the list have the same key
UniqueKeys(channels) == Cardinality(KeysOf(channels)) = Len(channels)

\* every PDG id list of the summary is sorted
SortedLists(s) ==
    \A ch \in ChannelSet(s) : /\ ch.incoming_pdgid = Sorted(ch.incoming_pdgid)
                              /\ ch.outgoing_pdgid = Sorted(ch.outgoing_pdgid)

\* C16: __add__ is associative: (a + b) + c and a + (b + c) are equal, in the
\* totals and in the channel list (same channels, same order, same PDG id
\* lists, same counters).
C16_AddAssociative ==
    ag_pc = "done" => ag_out.left = ag_out.right

\* C16 witness: a, b, c list one key in two spellings and a second key; both
\* sums hold the first spelling with the counters added, then the second key
C16_Witness ==
    /\ ag_pc = "done"
    /\ ag_in[1].total_channels = << LHEChannel(<<2, 1>>, <<3>>, 1, 0) >>
    /\ ag_in[2].total_channels = << LHEChannel(<<1, 1>>, <<3>>, 1, 0) >>
    /\ ag_in[3].total_channels = << LHEChannel(<<1, 2>>, <<3>>, 2, 1) >>
    /\ ag_out.left.total_channels = << LHEChannel(<<2, 1>>, <<3>>, 3, 1),
                                       LHEChannel(<<1, 1>>, <<3>>, 1, 0) >>
    /\ ag_out.right = ag_out.left

\* C17: the zero summary is an identity of __add__: a + zero = a and
\* zero + a = a for every summary a, also when a lists a key more than once
\* or lists PDG ids out of order.
C17_ZeroIsIdentity ==
    ag_pc = "done" => /\ ag_out.az = ag_in[1]
                      /\ ag_out.za = ag_in[1]

\* C17 as the code has it: a + zero and zero + a are equal, have the totals
\* of a and one channel per key of a with the counters of that key added
\* up; they are a itself when a lists no key twice, whatever the order of
\* its PDG ids.
C17_ZeroIsIdentityUpToMerging ==
    ag_pc = "done"
    => /\ ag_out.az = ag_out.za
       /\ ag_out.az.total_events = ag_in[1].total_events
       /\ ag_out.az.total_negative_weighted_events
            = ag_in[1].total_negative_weighted_events
       /\ UniqueKeys(ag_out.az.total_channels)
       /\ KeysOf(ag_out.az.total_channels) = KeysOf(ag_in[1].total_channels)
       /\ \A ch \in ChannelSet(ag_out.az) :
            /\ ch.num_events = KeyEvents(ag_in[1].total_channels, ChannelKey(ch))
            /\ ch.num_negative_events
                 = KeyNegative(ag_in[1].total_channels, ChannelKey(ch))
       /\ UniqueKeys(ag_in[1].total_channels)
          => /\ ag_out.az = ag_in[1]
             /\ ag_out.za = ag_in[1]

\* C17 witness: a lists two keys once each, one of them out of order, and
\* comes back unchanged
C17_Witness ==
    /\ ag_pc = "done"
    /\ ag_in[1] = LHEAccumulatedInfo(3, 1, << LHEChannel(<<2, 1>>, <<3>>, 2, 1),
                                              LHEChannel(<<1, 1>>, <<3>>, 1, 0) >>)
    /\ ag_out.az = ag_in[1] /\ ag_out.za = ag_in[1]

\* C18: __add__ is commutative: a + b and b + a have the same totals and
\* the same channels (keys, PDG id lists and counters), in whatever order.
C18_AddCommutative ==
    ag_pc = "done"
    => /\ ag_out.ab.total_events = ag_out.ba.total_events
       /\ ag_out.ab.total_negative_weighted_events
            = ag_out.ba.total_negative_weighted_events
       /\ ChannelSet(ag_out.ab) = ChannelSet(ag_out.ba)

\* C18 as the code has it: a + b and b + a have the same totals, the same
\* keys and per key the same counters; a channel carries the PDG id lists of
\* the first entry with its key, so the channels are the same when the PDG
\* id lists of a and b are sorted.  The order of the channels may differ.
C18_AddCommutativeUpToSpelling ==
    ag_pc = "done"
    => /\ ag_out.ab.total_events = ag_out.ba.total_events
       /\ ag_out.ab.total_negative_weighted_events
            = ag_out.ba.total_negative_weighted_events
       /\ { <<ChannelKey(ch), ch.num_events, ch.num_negative_events>> :
              ch \in ChannelSet(ag_out.ab) }
          = { <<ChannelKey(ch), ch.num_events, ch.num_negative_events>> :
              ch \in ChannelSet(ag_out.ba) }
       /\ Len(ag_out.ab.total_channels) = Len(ag_out.ba.total_channels)
       /\ UniqueKeys(ag_out.ab.total_channels)
       /\ (SortedLists(ag_in[1]) /\ SortedLists(ag_in[2]))
          => ChannelSet(ag_out.ab) = ChannelSet(ag_out.ba)

\* C18 witness: a and b share a key; both sums hold the two channels with
\* the same counters, in opposite orders
C18_Witness ==
    /\ ag_pc = "done"
    /\ ag_in[1].total_channels = << LHEChannel(<<1, 2>>, <<3>>, 1, 0) >>
    /\ ag_in[2].total_channels = << LHEChannel(<<1, 1>>, <<3>>, 1, 0),
                                    LHEChannel(<<1, 2>>, <<3>>, 2, 1) >>
    /\ ag_out.ab.total_channels = << LHEChannel(<<1, 2>>, <<3>>, 3, 1),
                                     LHEChannel(<<1, 1>>, <<3>>, 1, 0) >>
    /\ ag_out.ba.total_channels = << LHEChannel(<<1, 1>>, <<3>>, 1, 0),
                                     LHEChannel(<<1, 2>>, <<3>>, 3, 1) >>

\* the key of the channel an event belongs to, taken from its particles
EventKey(e) ==
    << Sorted(IdsWithStatus(e.particles, -1)), Sorted(IdsWithStatus(e.particles, 1)) >>

\* C19: the summary of one file (get_lheinfo, then LHEInfo.print) has
\* total_events = the number of events of the file, the negative total = the
\* number of events with a central weight below zero, and exactly one
\* channel for every key that occurs among the events, whose two counters
\* are the number of events, and of negative events, with that key.
C19_StreamSummary ==
    (li_last # <<>> /\ li_pc \in {"next", "done"})
    => LET s == li_last[1]
           evs == li_events
           Having(key) == { k \in 1..Len(evs) : EventKey(evs[k]) = key }
       IN  /\ s.total_events = Len(evs)
           /\ s.total_negative_weighted_events
                = Cardinality({ k \in 1..Len(evs) : evs[k].weight < 0 })
           /\ UniqueKeys(s.total_channels)
           /\ KeysOf(s.total_channels) = { EventKey(evs[k]) : k \in 1..Len(evs) }
           /\ \A ch \in ChannelSet(s) :
                /\ ch.num_events = Cardinality(Having(ChannelKey(ch)))
                /\ ch.num_negative_events
                     = Cardinality({ k \in Having(ChannelKey(ch)) : evs[k].weight < 0 })

\* the destination and the temporary file of the j-th file named
fxOutOf(j) == OutputPath(FixFiles[j], fx_suffix)
fxTempOf(j) == TempPath(FixFiles[j])

\* C20: the batch of lhefix.  A file that is missing, whose header cannot be
\* read or whose writing fails is reported and skipped: the process does not
\* exit, main goes on until it is through with every file named, and the
\* destination of a file that failed is as it was when main started, with
\* no temporary file left.
C20_FixBatchContinues ==
    fx_mode = "file"
    => /\ fx_pc # "exit"
       /\ fx_pc = "finished" \/ ENABLED FixNext
       /\ fx_pc = "finished" => Len(fx_results) = fx_nfiles
       /\ fx_pc # "finished" => Len(fx_results) = fx_k - 1
       /\ \A j \in 1..Len(fx_results) :
            fx_results[j].msg \in {"missing", "error"}
            => /\ FileAt(fx_fs, fxOutOf(j)) = FileAt(fx_start, fxOutOf(j))
               /\ ~Exists(fx_fs, fxTempOf(j))

\* C20 witness: the first of two files failed, the second was fixed after it
C20_Witness ==
    /\ fx_mode = "file" /\ fx_pc = "finished" /\ fx_nfiles = 2
    /\ fx_results = << [msg |-> "error", n |-> 0], [msg |-> "fixed", n |-> 2] >>
    /\ Exists(fx_start, fxOutOf(1))
    /\ FileAt(fx_fs, fxOutOf(1)) = FileAt(fx_start, fxOutOf(1))
    /\ Exists(fx_fs, fxOutOf(2))
    /\ fx_fs[fxOutOf(2)].state = "new" /\ fx_fs[fxOutOf(2)].complete
    /\ Len(fx_fs[fxOutOf(2)].events) = 2

\* C21: in an lheinfo or lheshow batch over several files, an error on one
\* file (a decode failure, or a requested event number beyond that file's
\* event count) does not end the batch: the run never stops at a failing file
\* while later files of the argument list are still waiting.
C21_ViewBatchContinues ==
    /\ li_pc = "raised" => li_k + 1 >= li_nfiles
    /\ (sh_pc = "exit" /\ (sh_event = <<>> \/ sh_event[1] >= 0))
       => sh_k >= sh_nfiles

\* C22: convert_lhe_file writing to a named output file is all-or-nothing.
\* The content at the output path is that of before the call until the whole
\* event stream has been written, and when the call has returned 1 the path
\* still holds what it held before the call (or nothing, when it was absent).
C22_ConvertAllOrNothing ==
    cv_output # <<>>
    => /\ cv_file.state = "new" => cv_file.complete
       /\ cv_ret = <<1>> => cv_file \in {NoContent("absent"), NoContent("orig")}

\* no weight id of the header is defined in two groups
UniqueIds(init) ==
    \A g \in DOMAIN init, h \in DOMAIN init :
        g # h => (DOMAIN init[g]) \cap (DOMAIN init[h]) = {}

\* C23: when only_weight_id is present in a header whose weight ids are
\* globally unique, the step that restricts the header leaves exactly one
\* group, the one that held the id, with exactly that one weight definition,
\* text and index unchanged.
C23_RestrictHeader ==
    [][ (/\ cv_pc = "only" /\ cv_pc' = "out" /\ cv_only' # <<>>
         /\ UniqueIds(cv_init)
         /\ HasWeightId(cv_init, cv_only'[1]))
        => \E g \in DOMAIN cv_init :
              /\ cv_only'[1] \in DOMAIN cv_init[g]
              /\ cv_init' = [x \in {g} |->
                                [i \in {cv_only'[1]} |-> cv_init[g][cv_only'[1]]]]
      ]_vars

\* the header <g1: a, g2: b> has been restricted to b
C23_Witness ==
    /\ cv_pc = "out"
    /\ cv_only = <<"b">>
    /\ cv_init = [x \in {"g2"} |-> [i \in {"b"} |-> WInfo("t0", 2)]]

\* C24: lhefix on named files fixes each file in place.  With the command
\* line's default options, when a file has been fixed the output path is the
\* input path and the input file holds the fixed content.
C24_FixInPlace ==
    (/\ fx_mode = "file" /\ fx_suffix = FixDefaultSuffix
     /\ fx_pc = "done" /\ fx_replaced = 1)
    => /\ fxOut = FixFilepath
       /\ fx_fs[FixFilepath] # fx_fs0[FixFilepath]

\* position of the last "/" of a path, 0 when it has no directory part
LastSlash(path) ==
    IF \E k \in 1..Len(path) : path[k] = "/"
    THEN CHOOSE k \in 1..Len(path) :
            path[k] = "/" /\ \A m \in (k + 1)..Len(path) : path[m] # "/"
    ELSE 0

\* the directory part of a path (with its last "/") and its file name
DirOf(path) == SubSeq(path, 1, LastSlash(path))
NameOf(path) == SubSeq(path, LastSlash(path) + 1, Len(path))

\* the file name with _i put immediately before its extension (at its end
\* when it has none), in the directory of the path
ChunkName(path, i) ==
    LET name == NameOf(path)
        k == FirstIndex(name, ".")
        cut == IF k = 0 THEN Len(name) ELSE k - 1
    IN  DirOf(path) \o SubSeq(name, 1, cut) \o <<"_" \o Str(i)>>
                    \o SubSeq(name, cut + 1, Len(name))

\* C25: lhesplit writes the i-th chunk, counted from 1, to the name obtained
\* from the output base by inserting _i immediately before the file
\* extension, in the directory of the output base, and for every output base
\* two distinct chunks are never written to the same path.
C25_ChunkNames ==
    /\ \A i \in 1..Len(sp_names) : sp_names[i] = ChunkName(sp_base, i)
    /\ \A i \in 1..Len(sp_names), j \in 1..Len(sp_names) :
          i # j => sp_names[i] # sp_names[j]

\* the same, for an output base whose first "." is the one of the extension
C25_ChunkNamesPlainBase ==
    (FirstIndex(sp_base, ".") > LastSlash(sp_base))
    => C25_ChunkNames

\* the events written so far are the events pulled so far, each once and in
\* source order (the last one pulled is missing when its write raised), and
\* every header written so far is the header of the input (the last chunk
\* has none when the write of its header raised)
spChunksFaithful ==
    /\ \/ Concat(sp_files) = SubSeq(sp_src, 1, sp_pos)
       \/ /\ sp_pc = "raised"
          /\ Concat(sp_files) = SubSeq(sp_src, 1, sp_pos - 1)
    /\ sp_ret = <<0>> => sp_pos = Len(sp_src)
    /\ \A i \in 1..Len(sp_heads) :
          \/ sp_heads[i] = sp_init
          \/ sp_heads[i] = <<>> /\ i = Len(sp_heads) /\ sp_pc = "raised"

\* a step that pulls an event hands it to the chunk being written, all
\* chunks before it being complete; a complete chunk never changes
spOneChunkAtATime ==
    /\ sp_pos' # sp_pos
       => /\ sp_pos' = sp_pos + 1
          /\ sp_closed = sp_i - 1
          /\ \/ sp_files' = [sp_files EXCEPT
                                ![sp_i] = Append(@, sp_src[sp_pos + 1])]
             \/ sp_pc' = "raised" /\ sp_files' = sp_files
    /\ \A i \in 1..sp_closed : sp_files'[i] = sp_files[i]

\* C26: split_lhe_file writes chunks one at a time.  No event of chunk i+1 is
\* pulled from the source before chunk i has been completely written, every
\* source event is pulled exactly once, and all chunks are written with the
\* same header.
C26_ChunksOneAtATime ==
    []spChunksFaithful /\ [][spOneChunkAtATime]_vars

\* three events have been split into chunks of two: two chunks, both closed
C26_Witness ==
    /\ sp_pc = "done" /\ sp_ret = <<0>>
    /\ sp_K = 2 /\ Len(sp_src) = 3
    /\ Len(sp_files) = 2 /\ Len(sp_files[2]) = 1
    /\ sp_closed = 2
    /\ sp_heads = << <<"h1">>, <<"h1">> >>

\* the event counters, and the negative-event counters, of a channel list
RECURSIVE SumEvents(_)
SumEvents(channels) ==
    IF channels = <<>> THEN 0
    ELSE Head(channels).num_events + SumEvents(Tail(channels))

RECURSIVE SumNegative(_)
SumNegative(channels) ==
    IF channels = <<>> THEN 0
    ELSE Head(channels).num_negative_events + SumNegative(Tail(channels))

\* in every channel the negative-event counter is at most the event counter
liNegativeWithinEvents ==
    \A ch \in ChannelSet(li_acc) : ch.num_negative_events <= ch.num_events

\* C27: in the summary get_lhesummary returns, the event counters of the
\* channels add up to total_events and their negative-event counters add up
\* to the negative-weight total, also for events whose process id the header
\* does not list and for headers that list a process id more than once; in
\* every channel the negative-event counter is at most the event counter.
C27_ChannelSums ==
    li_pc = "done"
    => /\ SumEvents(li_acc.total_channels) = li_acc.total_events
       /\ SumNegative(li_acc.total_channels)
            = li_acc.total_negative_weighted_events
       /\ liNegativeWithinEvents

====
